---- MODULE Spec2Model ----
(***************************************************************************)
(* Model of the class scheduler's booking core: the occurrence generator   *)
(* (utils/schedule-generator.util), the conflict detector and the request  *)
(* handlers of controllers/class.controller (create series, update entire  *)
(* series, update single instance, cancel single instance, delete series)  *)
(* running concurrently against the ClassSchedule collection.              *)
(*                                                                         *)
(* Time is counted in minutes since 2024-01-01 00:00 (a Monday); a date is *)
(* a day number since that day.  A handler is split at its awaits: every   *)
(* action is one database operation together with the synchronous code     *)
(* that runs on its result.                                                *)
(***************************************************************************)
EXTENDS Integers, Sequences, FiniteSets, TLC

\* ------------------------------------------------------------------------
\* Values of the JavaScript runtime
\* ------------------------------------------------------------------------

\* Number("ab"), and the getTime() of an Invalid Date.
NaN == -1

\* A field the request body does not carry.
Undefined == -2

\* A resource id the request body does not carry (ids are strings).
NoRes == "undefined"

MinutesPerHour == 60

MinutesPerDay == 1440

DaysPerWeek == 7

\* ------------------------------------------------------------------------
\* Bounds of the model
\* ------------------------------------------------------------------------

\* Number of client connections issuing requests concurrently.
NumProcs == 2

\* Total number of requests served one at a time in one behaviour.
MaxRequests == 4

\* Total number of requests served concurrently in one behaviour.
MaxConcurrentRequests == 3

\* Number of series ids the store can hand out.
MaxSeries == 2

Procs == 1..NumProcs

SeriesIds == 1..MaxSeries

\* ------------------------------------------------------------------------
\* Calendar (date-fns and Date, for dates from 2024-01-01 on)
\* ------------------------------------------------------------------------

IsLeapYear(y) == (y % 4 = 0 /\ y % 100 # 0) \/ y % 400 = 0

DaysInMonth(y, m) ==
  IF m = 2 THEN (IF IsLeapYear(y) THEN 29 ELSE 28)
  ELSE IF m \in {4, 6, 9, 11} THEN 30 ELSE 31

RECURSIVE YearMonthDay(_, _, _)
\* The calendar date of the day that lies d days after the first of month m
\* of year y, as <<year, month, day of month>>.
YearMonthDay(y, m, d) ==
  IF d < DaysInMonth(y, m) THEN <<y, m, d + 1>>
  ELSE IF m = 12 THEN YearMonthDay(y + 1, 1, d - DaysInMonth(y, m))
  ELSE YearMonthDay(y, m + 1, d - DaysInMonth(y, m))

\* Date.getDate()
getDate(day) == YearMonthDay(2024, 1, day)[3]

\* A month length that takes every February for 28 days.
lastDayOfMonthNoLeap(day) ==
  LET ymd == YearMonthDay(2024, 1, day)
  IN IF ymd[2] = 2 THEN 28 ELSE DaysInMonth(ymd[1], ymd[2])

\* date-fns lastDayOfMonth(date).getDate()
lastDayOfMonth(day) ==
  LET ymd == YearMonthDay(2024, 1, day) IN DaysInMonth(ymd[1], ymd[2])

\* date-fns isLastDayOfMonth
isLastDayOfMonth(day) == getDate(day) = lastDayOfMonth(day)

\* Date.getDay(): 0 = Sunday ... 6 = Saturday; day 0 is a Monday.
getDay(day) == (day + 1) % DaysPerWeek

\* date-fns differenceInDays, for later >= earlier
differenceInDays(later, earlier) == later - earlier

\* date-fns differenceInWeeks: whole weeks, truncated
differenceInWeeks(later, earlier) == (later - earlier) \div DaysPerWeek

\* Array.prototype.includes on a list
includes(list, x) == \E i \in 1..Len(list) : list[i] = x

\* ------------------------------------------------------------------------
\* Occurrence generator
\* ------------------------------------------------------------------------

MINIMUM_ALLOWED_DURATION_MINUTES == 30

\* addMinutes(new Date(), 30): the lead-time buffer
LeadTimeMinutes == 30

\* A time slot is [sh, sm, eh, em]: the numbers startTime24h and endTime24h
\* split into at ":" (NaN for a part that is no number or is missing).
\* The result is [err, s, e]: err = "none" and the session, or the error
\* thrown.
createValidClassSessionFromDateAndTimes(baseDay, slot) ==
  IF NaN \in {slot.sh, slot.sm, slot.eh, slot.em}
  THEN [err |-> "InputError", s |-> 0, e |-> 0]
  ELSE LET sessionStart ==
             baseDay * MinutesPerDay + slot.sh * MinutesPerHour + slot.sm
           sessionEnd ==
             baseDay * MinutesPerDay + slot.eh * MinutesPerHour + slot.em
       IN IF sessionEnd <= sessionStart
          THEN [err |-> "RangeError", s |-> 0, e |-> 0]
          ELSE IF sessionEnd - sessionStart < MINIMUM_ALLOWED_DURATION_MINUTES
          THEN [err |-> "RangeError", s |-> 0, e |-> 0]
          ELSE [err |-> "none", s |-> sessionStart, e |-> sessionEnd]

RECURSIVE SlotSessionsStrict(_, _, _, _)
\* A loop that keeps a session only when it starts after
\* earliestAllowedStart.
SlotSessionsStrict(baseDay, slots, i, earliestAllowedStart) ==
  IF i > Len(slots) THEN << >>
  ELSE LET session == createValidClassSessionFromDateAndTimes(baseDay, slots[i])
           rest == SlotSessionsStrict(baseDay, slots, i + 1, earliestAllowedStart)
       IN IF session.err = "none" /\ session.s > earliestAllowedStart
          THEN << [s |-> session.s, e |-> session.e] >> \o rest
          ELSE rest

RECURSIVE SlotSessionsDayAhead(_, _, _, _)
\* A loop that keeps the sessions that start within a day of
\* earliestAllowedStart instead of dropping those that start before it.
SlotSessionsDayAhead(baseDay, slots, i, earliestAllowedStart) ==
  IF i > Len(slots) THEN << >>
  ELSE LET session == createValidClassSessionFromDateAndTimes(baseDay, slots[i])
           rest == SlotSessionsDayAhead(baseDay, slots, i + 1, earliestAllowedStart)
       IN IF session.err = "none"
             /\ session.s < earliestAllowedStart + MinutesPerDay
          THEN << [s |-> session.s, e |-> session.e] >> \o rest
          ELSE rest

RECURSIVE SlotSessions(_, _, _, _)
\* dailyTimeSlots.forEach of one matching day, from slot i on: the session of
\* every slot that is valid and starts at or after earliestAllowedStart; a
\* slot whose validation throws is caught and skipped.
SlotSessions(baseDay, slots, i, earliestAllowedStart) ==
  IF i > Len(slots) THEN << >>
  ELSE LET session == createValidClassSessionFromDateAndTimes(baseDay, slots[i])
           rest == SlotSessions(baseDay, slots, i + 1, earliestAllowedStart)
       IN IF session.err = "none" /\ session.s >= earliestAllowedStart
          THEN << [s |-> session.s, e |-> session.e] >> \o rest
          ELSE rest

RECURSIVE ManualSessionsStopAtInvalid(_, _, _, _)
\* A loop that gives up at the first Invalid Date.
ManualSessionsStopAtInvalid(dates, i, slots, earliestAllowedStart) ==
  IF i > Len(dates) \/ dates[i] = NaN THEN << >>
  ELSE SlotSessions(dates[i], slots, 1, earliestAllowedStart)
       \o ManualSessionsStopAtInvalid(dates, i + 1, slots, earliestAllowedStart)

RECURSIVE ManualSessions(_, _, _, _)
\* manuallyChosenDates.forEach, from date i on; an Invalid Date is skipped.
ManualSessions(dates, i, slots, earliestAllowedStart) ==
  IF i > Len(dates) THEN << >>
  ELSE (IF dates[i] = NaN THEN << >>
        ELSE SlotSessions(dates[i], slots, 1, earliestAllowedStart))
       \o ManualSessions(dates, i + 1, slots, earliestAllowedStart)

\* A match that takes an empty selectedWeekdays for no weekday at all.
CustomPatternMatchesSelectedOnly(payload, day) ==
  LET weeksSincePatternStart == differenceInWeeks(day, payload.seriesStartDate)
      every == IF payload.repeatEveryXWeeksOrDays = Undefined
               THEN 1 ELSE payload.repeatEveryXWeeksOrDays
      intervalWeeks == IF every >= 1 THEN every ELSE 1
  IN /\ weeksSincePatternStart % intervalWeeks = 0
     /\ includes(payload.selectedWeekdays, getDay(day))

\* The match of one day in custom pattern mode.
CustomPatternMatches(payload, day) ==
  LET weeksSincePatternStart == differenceInWeeks(day, payload.seriesStartDate)
      every == IF payload.repeatEveryXWeeksOrDays = Undefined
               THEN 1 ELSE payload.repeatEveryXWeeksOrDays
      intervalWeeks == IF every >= 1 THEN every ELSE 1
  IN /\ weeksSincePatternStart % intervalWeeks = 0
     /\ \/ Len(payload.selectedWeekdays) = 0
        \/ includes(payload.selectedWeekdays, getDay(day))

\* A match that takes every week for a matching week.
ShouldIncludeThisDayEveryWeek(payload, day) ==
  CASE payload.recurrenceType = "daily" ->
         LET every == IF payload.repeatEveryXWeeksOrDays = Undefined
                      THEN 1 ELSE payload.repeatEveryXWeeksOrDays
         IN every # 0 /\ differenceInDays(day, payload.seriesStartDate) % every = 0
    [] payload.recurrenceType = "weekly" ->
         includes(payload.selectedWeekdays, getDay(day))
    [] payload.recurrenceType = "monthly" ->
         \/ includes(payload.selectedMonthDays, getDate(day))
         \/ /\ isLastDayOfMonth(day)
            /\ \E i \in 1..Len(payload.selectedMonthDays) :
                  payload.selectedMonthDays[i] > lastDayOfMonth(day)
    [] payload.recurrenceType = "none" -> TRUE
    [] OTHER -> FALSE

\* shouldIncludeThisDay of the standard recurrence types; x % 0 is NaN in
\* JavaScript and never equals 0.
ShouldIncludeThisDay(payload, day) ==
  LET every == IF payload.repeatEveryXWeeksOrDays = Undefined
               THEN 1 ELSE payload.repeatEveryXWeeksOrDays
  IN CASE payload.recurrenceType = "daily" ->
            /\ every # 0
            /\ differenceInDays(day, payload.seriesStartDate) % every = 0
       [] payload.recurrenceType = "weekly" ->
            /\ every # 0
            /\ differenceInWeeks(day, payload.seriesStartDate) % every = 0
            /\ includes(payload.selectedWeekdays, getDay(day))
       [] payload.recurrenceType = "monthly" ->
            \/ includes(payload.selectedMonthDays, getDate(day))
            \/ /\ isLastDayOfMonth(day)
               /\ \E i \in 1..Len(payload.selectedMonthDays) :
                     payload.selectedMonthDays[i] > lastDayOfMonth(day)
       [] payload.recurrenceType = "none" -> TRUE
       [] OTHER -> FALSE

RECURSIVE PatternWalk(_, _, _, _)
\* The while loop of custom pattern mode, from currentDate on.
PatternWalk(payload, currentDate, patternEndDate, earliestAllowedStart) ==
  IF currentDate > patternEndDate THEN << >>
  ELSE (IF CustomPatternMatches(payload, currentDate)
        THEN SlotSessions(currentDate, payload.dailyTimeSlots, 1,
                          earliestAllowedStart)
        ELSE << >>)
       \o PatternWalk(payload, currentDate + 1, patternEndDate,
                      earliestAllowedStart)

RECURSIVE CursorWalkExclusive(_, _, _, _)
\* A walk that stops before the day of seriesEndDate.
CursorWalkExclusive(payload, currentDateCursor, recurrenceEndBoundary, earliestAllowedStart) ==
  IF currentDateCursor >= recurrenceEndBoundary THEN << >>
  ELSE (IF ShouldIncludeThisDay(payload, currentDateCursor)
        THEN SlotSessions(currentDateCursor, payload.dailyTimeSlots, 1,
                          earliestAllowedStart)
        ELSE << >>)
       \o (IF payload.recurrenceType = "none" THEN << >>
           ELSE CursorWalkExclusive(payload, currentDateCursor + 1,
                                    recurrenceEndBoundary, earliestAllowedStart))

RECURSIVE CursorWalk(_, _, _, _)
\* The while loop of the standard types, from currentDateCursor on; "none"
\* breaks after one day.
CursorWalk(payload, currentDateCursor, recurrenceEndBoundary, earliestAllowedStart) ==
  IF currentDateCursor > recurrenceEndBoundary THEN << >>
  ELSE (IF ShouldIncludeThisDay(payload, currentDateCursor)
        THEN SlotSessions(currentDateCursor, payload.dailyTimeSlots, 1,
                          earliestAllowedStart)
        ELSE << >>)
       \o (IF payload.recurrenceType = "none" THEN << >>
           ELSE CursorWalk(payload, currentDateCursor + 1,
                           recurrenceEndBoundary, earliestAllowedStart))

Thrown(kind) == [err |-> kind, sessions |-> << >>]

\* generateAllClassSessions(payload) called at time now: [err, sessions],
\* err = "none" and the sessions, or the kind of the error thrown.
generateAllClassSessions(payload, now) ==
  LET earliestAllowedStart == now + LeadTimeMinutes
      slots == payload.dailyTimeSlots
  IN IF Len(slots) = 0 THEN Thrown("InputError")
     ELSE IF payload.recurrenceType = "custom"
     THEN IF Len(payload.manuallyChosenDates) > 0
          THEN LET generated ==
                     ManualSessions(payload.manuallyChosenDates, 1, slots,
                                    earliestAllowedStart)
               IN IF Len(generated) = 0 THEN Thrown("EmptyResultError")
                  ELSE [err |-> "none", sessions |-> generated]
          ELSE IF payload.seriesStartDate = Undefined
                  \/ payload.seriesEndDate = Undefined
          THEN Thrown("InputError")
          ELSE IF payload.seriesStartDate = NaN \/ payload.seriesEndDate = NaN
          THEN Thrown("InputError")
          ELSE IF payload.seriesStartDate > payload.seriesEndDate
          THEN Thrown("RangeError")
          ELSE LET generated ==
                     PatternWalk(payload, payload.seriesStartDate,
                                 payload.seriesEndDate, earliestAllowedStart)
               IN IF Len(generated) = 0 THEN Thrown("EmptyResultError")
                  ELSE [err |-> "none", sessions |-> generated]
     ELSE IF payload.seriesStartDate \in {Undefined, NaN}
     THEN Thrown("InputError")
     ELSE LET recurrenceEndBoundary ==
                IF payload.seriesEndDate = Undefined
                THEN payload.seriesStartDate ELSE payload.seriesEndDate
              generated ==
                IF recurrenceEndBoundary = NaN THEN << >>
                ELSE CursorWalk(payload, payload.seriesStartDate,
                                recurrenceEndBoundary, earliestAllowedStart)
          IN IF Len(generated) = 0 THEN Thrown("EmptyResultError")
             ELSE [err |-> "none", sessions |-> generated]

\* ------------------------------------------------------------------------
\* Requests the clients send
\* ------------------------------------------------------------------------

Slot(sh, sm, eh, em) == [sh |-> sh, sm |-> sm, eh |-> eh, em |-> em]

Rule(type, start, end, slots) ==
  [recurrenceType |-> type, seriesStartDate |-> start, seriesEndDate |-> end,
   dailyTimeSlots |-> slots, selectedWeekdays |-> << >>,
   selectedMonthDays |-> << >>, repeatEveryXWeeksOrDays |-> Undefined,
   manuallyChosenDates |-> << >>]

\* One session on day 1, 09:00-10:00.
RuleSingle == Rule("none", 1, Undefined, << Slot(9, 0, 10, 0) >>)

\* Days 1 and 2, 09:00-10:00.
RuleDaily == Rule("daily", 1, 2, << Slot(9, 0, 10, 0) >>)

\* No time slot at all.
RuleNoSlots == Rule("daily", 1, 2, << >>)

Rules == {RuleSingle, RuleDaily, RuleNoSlots}

\* <<assignedRoom, assignedInstructor>> of a request body.
ResourcePairs == {<<"R1", "I1">>, <<"R1", "I2">>, <<NoRes, "I1">>}

Body(rule, pair) ==
  [rule |-> rule, assignedRoom |-> pair[1], assignedInstructor |-> pair[2]]

Bodies == {Body(r, rp) : r \in Rules, rp \in ResourcePairs}

NoBody == Body(RuleNoSlots, <<NoRes, NoRes>>)

\* <<newStart, newEnd>> of a single-instance edit: day 2 09:00-10:00,
\* day 3 09:00-10:00, and an end that lies before its start.
EditTimes == {<<3420, 3480>>, <<4860, 4920>>, <<4860, 4800>>}

\* The reason a request carries ("" when it carries none).
Reasons == {""}

\* The times at which requests are served: the start of day 0, and 09:00
\* on day 1.
ClockTimes == <<0, 1980>>

\* ------------------------------------------------------------------------
\* State
\* ------------------------------------------------------------------------

VARIABLES
  store,        \* the ClassSchedule collection: series id -> document
  nextSeriesId, \* the next _id of a series
  nextSid,      \* the next _id of a session subdocument
  clock,        \* index into ClockTimes of the current time
  pc,           \* where each client's handler stands
  req,          \* the request each handler is serving
  loc,          \* the handler's local variables
  outcome,      \* how each client's last request was answered
  started,      \* number of requests sent so far
  mode,         \* "concurrent": requests overlap; "serial": one at a time
  interfered,   \* history: another request wrote on this request's room or
                \* instructor after its conflict check
  conc          \* history: the clients whose requests ran while this
                \* client's last request was in flight

vars == <<store, nextSeriesId, nextSid, clock, pc, req, loc, outcome,
          started, mode, interfered, conc>>

Now == ClockTimes[clock]

NoId == 0

\* n numbers the requests in the order they were sent.
NoReq == [n |-> 0, op |-> "none", body |-> NoBody, id |-> NoId, sid |-> NoId,
          newStart |-> 0, newEnd |-> 0, reason |-> ""]

\* The exceptions path of a ClassSchedule document, which the controller
\* reads and writes: an array of subdocuments [originalStart, status,
\* newStart, newEnd, reason] that is stored with the document and is empty
\* in a new one.
NoExceptions == << >>

NoDoc == [assignedRoom |-> NoRes, assignedInstructor |-> NoRes,
          rule |-> RuleNoSlots, preGeneratedClassSessions |-> << >>,
          exceptions |-> NoExceptions, v |-> 0]

\* sessions: the candidate sessions; gen: the sessions as generated;
\* doc: the document findById returned; idx: the position of the addressed
\* session in it.
NoLoc == [sessions |-> << >>, gen |-> << >>, doc |-> NoDoc, idx |-> 0]

NoOutcome == [n |-> 0, op |-> "none", status |-> "none", err |-> "none",
              id |-> NoId, room |-> NoRes, instr |-> NoRes, windows |-> << >>]

\* The answer to request r; of a create request it remembers the resources
\* and the generated windows.
Answer(r, windows, status, err) ==
  [n |-> r.n, op |-> r.op, status |-> status, err |-> err, id |-> r.id,
   room |-> IF r.op = "create" THEN r.body.assignedRoom ELSE NoRes,
   instr |-> IF r.op = "create" THEN r.body.assignedInstructor ELSE NoRes,
   windows |-> IF r.op = "create" THEN windows ELSE << >>]

Committed(r, windows) == Answer(r, windows, "Committed", "none")

Rejected(r, windows, kind) == Answer(r, windows, "Rejected", kind)

InitCommon ==
  /\ store = << >>
  /\ nextSeriesId = 1
  /\ nextSid = 1
  /\ clock = 1
  /\ pc = [p \in Procs |-> "idle"]
  /\ req = [p \in Procs |-> NoReq]
  /\ loc = [p \in Procs |-> NoLoc]
  /\ outcome = [p \in Procs |-> NoOutcome]
  /\ started = 0
  /\ interfered = [p \in Procs |-> FALSE]
  /\ conc = [p \in Procs |-> {}]

Init == InitCommon /\ mode = "concurrent"

SeqInit == InitCommon /\ mode = "serial"

\* ------------------------------------------------------------------------
\* Conflict detector
\* ------------------------------------------------------------------------

\* A comparison with $lte/$gte, which takes touching sessions for
\* overlapping ones.
OverlapsInclusive(existing, proposed) ==
  proposed.s <= existing.e /\ proposed.e >= existing.s

\* The $lt/$gt pair of baseQuery, and the predicate of overlappingSession.
Overlaps(existing, proposed) ==
  proposed.s < existing.e /\ proposed.e > existing.s

\* The ids of the documents baseQuery(field, id) selects.
baseQuery(st, field, id, requestedSessions, ignoreSeriesId) ==
  {k \in DOMAIN st :
     /\ st[k][field] = id
     /\ (ignoreSeriesId # NoId => k # ignoreSeriesId)
     /\ \E i \in 1..Len(st[k].preGeneratedClassSessions) :
          \E j \in 1..Len(requestedSessions) :
             Overlaps(st[k].preGeneratedClassSessions[i], requestedSessions[j])}

\* findOne: the first matching document in insertion order, or none.
findOne(ids) ==
  IF ids = {} THEN NoId ELSE CHOOSE k \in ids : \A j \in ids : k <= j

\* entityName: whom the message names; s, e: the window it reports.
NoConflict ==
  [err |-> "none", found |-> FALSE, field |-> "", entityName |-> "",
   instructorConflict |-> NoId, roomConflict |-> NoId, s |-> 0, e |-> 0]

\* A detector that looks at the room first: its report is tagged with the
\* room when both resources conflict.
findDetailedSchedulingConflictRoomFirst(st, requestedSessions, targetRoomId, targetInstructorId, ignoreSeriesId) ==
  IF Len(requestedSessions) = 0 THEN [NoConflict EXCEPT !.err = "QueryError"]
  ELSE
  LET instructorConflict ==
        findOne(baseQuery(st, "assignedInstructor", targetInstructorId,
                          requestedSessions, ignoreSeriesId))
      roomConflict ==
        findOne(baseQuery(st, "assignedRoom", targetRoomId,
                          requestedSessions, ignoreSeriesId))
  IN IF instructorConflict = NoId /\ roomConflict = NoId THEN NoConflict
     ELSE LET conflictSource ==
                IF roomConflict # NoId THEN roomConflict
                ELSE instructorConflict
              existing == st[conflictSource].preGeneratedClassSessions
              hit == CHOOSE i \in 1..Len(existing) :
                       /\ \E j \in 1..Len(requestedSessions) :
                             Overlaps(existing[i], requestedSessions[j])
                       /\ \A h \in 1..(i - 1) :
                             ~ \E j \in 1..Len(requestedSessions) :
                                  Overlaps(existing[h], requestedSessions[j])
          IN [err |-> "none", found |-> TRUE,
              field |-> IF roomConflict # NoId
                        THEN "assignedRoom" ELSE "assignedInstructor",
              entityName |-> IF instructorConflict # NoId /\ roomConflict # NoId
                             THEN "Instructor AND Room"
                             ELSE IF instructorConflict # NoId
                             THEN "Instructor" ELSE "Room",
              instructorConflict |-> instructorConflict,
              roomConflict |-> roomConflict,
              s |-> existing[hit].s, e |-> existing[hit].e]

\* findDetailedSchedulingConflict against the collection st.  An empty
\* requestedSessions makes the query's $or empty, which the database
\* refuses: the call throws.
findDetailedSchedulingConflict(st, requestedSessions, targetRoomId, targetInstructorId, ignoreSeriesId) ==
  IF Len(requestedSessions) = 0 THEN [NoConflict EXCEPT !.err = "QueryError"]
  ELSE
  LET instructorConflict ==
        findOne(baseQuery(st, "assignedInstructor", targetInstructorId,
                          requestedSessions, ignoreSeriesId))
      roomConflict ==
        findOne(baseQuery(st, "assignedRoom", targetRoomId,
                          requestedSessions, ignoreSeriesId))
  IN IF instructorConflict = NoId /\ roomConflict = NoId THEN NoConflict
     ELSE LET conflictSource ==
                IF instructorConflict # NoId THEN instructorConflict
                ELSE roomConflict
              existing == st[conflictSource].preGeneratedClassSessions
              hit == CHOOSE i \in 1..Len(existing) :
                       /\ \E j \in 1..Len(requestedSessions) :
                             Overlaps(existing[i], requestedSessions[j])
                       /\ \A h \in 1..(i - 1) :
                             ~ \E j \in 1..Len(requestedSessions) :
                                  Overlaps(existing[h], requestedSessions[j])
          IN [err |-> "none", found |-> TRUE,
              field |-> IF instructorConflict # NoId
                        THEN "assignedInstructor" ELSE "assignedRoom",
              entityName |-> IF instructorConflict # NoId /\ roomConflict # NoId
                             THEN "Instructor AND Room"
                             ELSE IF instructorConflict # NoId
                             THEN "Instructor" ELSE "Room",
              instructorConflict |-> instructorConflict,
              roomConflict |-> roomConflict,
              s |-> existing[hit].s, e |-> existing[hit].e]

\* ------------------------------------------------------------------------
\* Exception reconciliation of updateEntireClassSeries
\* ------------------------------------------------------------------------

\* Array.prototype.findIndex for "originalStart equals start", 0 for -1.
findIndexByOriginalStart(exceptions, start) ==
  IF \E k \in 1..Len(exceptions) : exceptions[k].originalStart = start
  THEN CHOOSE k \in 1..Len(exceptions) :
         /\ exceptions[k].originalStart = start
         /\ \A h \in 1..(k - 1) : exceptions[h].originalStart # start
  ELSE 0

\* series.exceptions.find(originalStart equals start and status is modified),
\* as an index, 0 for undefined.
findManualEdit(exceptions, start) ==
  IF \E k \in 1..Len(exceptions) :
        exceptions[k].originalStart = start /\ exceptions[k].status = "modified"
  THEN CHOOSE k \in 1..Len(exceptions) :
         /\ exceptions[k].originalStart = start
         /\ exceptions[k].status = "modified"
         /\ \A h \in 1..(k - 1) :
               ~ (exceptions[h].originalStart = start
                  /\ exceptions[h].status = "modified")
  ELSE 0

\* A .map step that moves the start of a manually edited session and keeps
\* the generated end.
ApplyManualEditsStartOnly(newSessions, exceptions) ==
  [i \in 1..Len(newSessions) |->
     LET manualEdit == findManualEdit(exceptions, newSessions[i].s)
     IN IF manualEdit # 0
        THEN [newSessions[i] EXCEPT !.s = exceptions[manualEdit].newStart]
        ELSE newSessions[i]]

\* The .map step: a session with a manual edit takes its newStart/newEnd.
ApplyManualEdits(newSessions, exceptions) ==
  [i \in 1..Len(newSessions) |->
     LET manualEdit == findManualEdit(exceptions, newSessions[i].s)
     IN IF manualEdit # 0
        THEN [newSessions[i] EXCEPT !.s = exceptions[manualEdit].newStart,
                                    !.e = exceptions[manualEdit].newEnd]
        ELSE newSessions[i]]

\* The predicate of the .filter step.
IsCancelled(exceptions, sess) ==
  \E k \in 1..Len(exceptions) :
     exceptions[k].originalStart = sess.s /\ exceptions[k].status = "cancelled"

\* The .filter step: a session whose start is that of a cancelled exception
\* is dropped.
DropCancelled(newSessions, exceptions) ==
  LET Keep(sess) == ~ IsCancelled(exceptions, sess)
  IN SelectSeq(newSessions, Keep)

\* The two steps in the other order, newSessions.filter(...).map(...): the
\* cancelled exceptions are matched against the generated starts.
ReconcileFilterFirst(newSessions, exceptions) ==
  ApplyManualEdits(DropCancelled(newSessions, exceptions), exceptions)

\* newSessions.map(...).filter(...)
Reconcile(newSessions, exceptions) ==
  DropCancelled(ApplyManualEdits(newSessions, exceptions), exceptions)

\* The generated sessions, each remembering the start it was generated with
\* (g, a history field the code does not have).
WithOrigin(generated) ==
  [i \in 1..Len(generated) |->
     [s |-> generated[i].s, e |-> generated[i].e, g |-> generated[i].s]]

\* Mongoose casts the sessions to subdocuments with fresh _ids; hist (a
\* history field) lists the starts the subdocument has had.
AssignIds(sessions, first) ==
  [i \in 1..Len(sessions) |->
     [id |-> first + i - 1, s |-> sessions[i].s, e |-> sessions[i].e,
      g |-> sessions[i].g, hist |-> << sessions[i].s >>]]

\* ------------------------------------------------------------------------
\* Bookkeeping of the handlers
\* ------------------------------------------------------------------------

InFlight(q) == pc[q] # "idle"

\* A request is taken by the first idle client (the clients are
\* interchangeable); in serial mode it is sent only when no request is in
\* flight.
CanStart(p) ==
  /\ pc[p] = "idle"
  /\ \A q \in 1..(p - 1) : pc[q] # "idle"
  /\ IF mode = "serial"
     THEN started < MaxRequests /\ \A q \in Procs : pc[q] = "idle"
     ELSE started < MaxConcurrentRequests

\* Client p sends a request.
Begin(p) ==
  /\ started' = started + 1
  /\ interfered' = [interfered EXCEPT ![p] = FALSE]
  /\ conc' = [q \in Procs |->
                IF q = p THEN {x \in Procs \ {p} : InFlight(x)}
                ELSE IF InFlight(q) THEN conc[q] \cup {p} ELSE conc[q]]

\* The handler of p goes on to its next await, at label.
Continue(p, label, r, l) ==
  /\ pc' = [pc EXCEPT ![p] = label]
  /\ req' = [req EXCEPT ![p] = r]
  /\ loc' = [loc EXCEPT ![p] = l]
  /\ UNCHANGED outcome

\* The handler of p answers with o and returns.
Finish(p, o) ==
  /\ pc' = [pc EXCEPT ![p] = "idle"]
  /\ req' = [req EXCEPT ![p] = NoReq]
  /\ loc' = [loc EXCEPT ![p] = NoLoc]
  /\ outcome' = [outcome EXCEPT ![p] = o]

\* p writes sessions of a series on room and instr: every other create or
\* update that has passed its conflict check and not yet written, and that
\* targets the same room or instructor, has been overtaken.
MarkInterfered(p, room, instr) ==
  [q \in Procs |->
     \/ interfered[q]
     \/ /\ q # p
        /\ pc[q] \in {"c_write", "u_write"}
        /\ \/ req[q].body.assignedRoom = room
           \/ req[q].body.assignedInstructor = instr]

SessionIdsOf(id) ==
  IF id \in DOMAIN store
  THEN {store[id].preGeneratedClassSessions[i].id :
          i \in 1..Len(store[id].preGeneratedClassSessions)}
  ELSE {}

\* Position of the subdocument with _id sid (preGeneratedClassSessions.id),
\* 0 when there is none.
IndexOfId(sessions, sid) ==
  IF \E i \in 1..Len(sessions) : sessions[i].id = sid
  THEN CHOOSE i \in 1..Len(sessions) : sessions[i].id = sid
  ELSE 0

\* ------------------------------------------------------------------------
\* createClassSeries
\* ------------------------------------------------------------------------

\* The request arrives: the sessions are generated, and the conflict queries
\* are issued unless generation throws.
Create(p) ==
  /\ CanStart(p)
  /\ nextSeriesId <= MaxSeries
  /\ Begin(p)
  /\ \E body \in Bodies :
       LET generated == generateAllClassSessions(body.rule, Now)
           r == [NoReq EXCEPT !.n = started + 1, !.op = "create",
                              !.body = body]
       IN IF generated.err # "none"
          THEN Finish(p, Rejected(r, << >>, generated.err))
          ELSE Continue(p, "c_check", r,
                        [NoLoc EXCEPT
                           !.sessions = WithOrigin(generated.sessions),
                           !.gen = generated.sessions])
  /\ UNCHANGED <<store, nextSeriesId, nextSid, clock, mode>>

\* The document ClassSchedule.create inserts.
NewDocument(body, sessions, firstSid) ==
  [assignedRoom |-> body.assignedRoom,
   assignedInstructor |-> body.assignedInstructor,
   rule |-> body.rule,
   preGeneratedClassSessions |-> AssignIds(sessions, firstSid),
   exceptions |-> NoExceptions,
   v |-> 0]

\* A handler that, on a conflict, keeps waiting for the resource to become
\* free instead of answering.
CreateCheckWaiting(p) ==
  /\ pc[p] = "c_check"
  /\ LET conflict ==
           findDetailedSchedulingConflict(store, loc[p].sessions,
             req[p].body.assignedRoom, req[p].body.assignedInstructor, NoId)
     IN IF conflict.found
        THEN Continue(p, "c_check", req[p], loc[p])
        ELSE Continue(p, "c_write", req[p], loc[p])
  /\ UNCHANGED <<store, nextSeriesId, nextSid, clock, started, mode,
                 interfered, conc>>

\* A handler that inserts the document before it looks at the answer of the
\* conflict queries, and leaves it in place when it rejects.
CreateCheckInsertFirst(p) ==
  /\ pc[p] = "c_check"
  /\ LET conflict ==
           findDetailedSchedulingConflict(store, loc[p].sessions,
             req[p].body.assignedRoom, req[p].body.assignedInstructor, NoId)
     IN IF conflict.found
        THEN /\ store' =
                  [k \in DOMAIN store \cup {nextSeriesId} |->
                     IF k = nextSeriesId
                     THEN NewDocument(req[p].body, loc[p].sessions, nextSid)
                     ELSE store[k]]
             /\ nextSeriesId' = nextSeriesId + 1
             /\ nextSid' = nextSid + Len(loc[p].sessions)
             /\ Finish(p, Rejected(req[p], loc[p].gen, "ConflictError"))
        ELSE /\ Continue(p, "c_write", req[p], loc[p])
             /\ UNCHANGED <<store, nextSeriesId, nextSid>>
  /\ UNCHANGED <<clock, started, mode, interfered, conc>>

\* The conflict queries are answered.
CreateCheck(p) ==
  /\ pc[p] = "c_check"
  /\ LET conflict ==
           findDetailedSchedulingConflict(store, loc[p].sessions,
             req[p].body.assignedRoom, req[p].body.assignedInstructor, NoId)
     IN IF conflict.found
        THEN Finish(p, Rejected(req[p], loc[p].gen, "ConflictError"))
        ELSE Continue(p, "c_write", req[p], loc[p])
  /\ UNCHANGED <<store, nextSeriesId, nextSid, clock, started, mode,
                 interfered, conc>>

\* ClassSchedule.create: the schema requires the room, the instructor and
\* the start date.
CreateWrite(p) ==
  /\ pc[p] = "c_write"
  /\ LET body == req[p].body
     IN IF \/ body.assignedRoom = NoRes
           \/ body.assignedInstructor = NoRes
           \/ body.rule.seriesStartDate = Undefined
        THEN /\ Finish(p, Rejected(req[p], loc[p].gen, "ValidationError"))
             /\ UNCHANGED <<store, nextSeriesId, nextSid, interfered>>
        ELSE /\ store' =
                  [k \in DOMAIN store \cup {nextSeriesId} |->
                     IF k = nextSeriesId
                     THEN NewDocument(body, loc[p].sessions, nextSid)
                     ELSE store[k]]
             /\ nextSeriesId' = nextSeriesId + 1
             /\ nextSid' = nextSid + Len(loc[p].sessions)
             /\ interfered' =
                  MarkInterfered(p, body.assignedRoom, body.assignedInstructor)
             /\ Finish(p, Committed([req[p] EXCEPT !.id = nextSeriesId],
                                    loc[p].gen))
  /\ UNCHANGED <<clock, started, mode, conc>>

\* ------------------------------------------------------------------------
\* updateEntireClassSeries
\* ------------------------------------------------------------------------

\* findById is answered: the new sessions are generated and the stored
\* exceptions applied to them, and the conflict queries are issued.
UpdateLoad(p) ==
  /\ CanStart(p)
  /\ Begin(p)
  /\ \E id \in SeriesIds, body \in Bodies :
       LET r == [NoReq EXCEPT !.n = started + 1, !.op = "update",
                              !.body = body, !.id = id]
       IN IF id \notin DOMAIN store
          THEN Finish(p, Rejected(r, << >>, "NotFoundError"))
          ELSE LET generated == generateAllClassSessions(body.rule, Now)
               IN IF generated.err # "none"
                  THEN Finish(p, Rejected(r, << >>, generated.err))
                  ELSE Continue(p, "u_check", r,
                                [NoLoc EXCEPT
                                   !.sessions =
                                      Reconcile(WithOrigin(generated.sessions),
                                                store[id].exceptions),
                                   !.gen = generated.sessions,
                                   !.doc = store[id]])
  /\ UNCHANGED <<store, nextSeriesId, nextSid, clock, mode>>

\* The conflict queries are answered.
UpdateCheck(p) ==
  /\ pc[p] = "u_check"
  /\ LET conflict ==
           findDetailedSchedulingConflict(store, loc[p].sessions,
             req[p].body.assignedRoom, req[p].body.assignedInstructor,
             req[p].id)
     IN IF conflict.err # "none"
        THEN Finish(p, Rejected(req[p], << >>, conflict.err))
        ELSE IF conflict.found
        THEN Finish(p, Rejected(req[p], << >>, "ConflictError"))
        ELSE Continue(p, "u_write", req[p], loc[p])
  /\ UNCHANGED <<store, nextSeriesId, nextSid, clock, started, mode,
                 interfered, conc>>

\* An update that replaces the whole document, and so loses the exceptions.
UpdatedDocumentReplaced(old, body, newSessions, firstSid) ==
  [old EXCEPT
     !.assignedRoom =
        IF body.assignedRoom = NoRes THEN @ ELSE body.assignedRoom,
     !.assignedInstructor =
        IF body.assignedInstructor = NoRes THEN @ ELSE body.assignedInstructor,
     !.rule = body.rule,
     !.preGeneratedClassSessions = AssignIds(newSessions, firstSid),
     !.exceptions = NoExceptions]

\* The document after findByIdAndUpdate(id, {...body,
\* preGeneratedClassSessions: newSessions}): the fields the body carries are
\* set, exceptions and the version are not touched.
UpdatedDocument(old, body, newSessions, firstSid) ==
  [old EXCEPT
     !.assignedRoom =
        IF body.assignedRoom = NoRes THEN @ ELSE body.assignedRoom,
     !.assignedInstructor =
        IF body.assignedInstructor = NoRes THEN @ ELSE body.assignedInstructor,
     !.rule = body.rule,
     !.preGeneratedClassSessions = AssignIds(newSessions, firstSid)]

\* A write of the sessions as generated, without the stored exceptions
\* applied to them.
UpdateWriteRaw(p) ==
  /\ pc[p] = "u_write"
  /\ LET id == req[p].id
     IN IF id \notin DOMAIN store
        THEN UNCHANGED <<store, nextSid, interfered>>
        ELSE LET new == UpdatedDocument(store[id], req[p].body,
                                        WithOrigin(loc[p].gen), nextSid)
             IN /\ store' = [store EXCEPT ![id] = new]
                /\ nextSid' = nextSid + Len(loc[p].gen)
                /\ interfered' =
                     MarkInterfered(p, new.assignedRoom, new.assignedInstructor)
  /\ Finish(p, Committed(req[p], << >>))
  /\ UNCHANGED <<nextSeriesId, clock, started, mode, conc>>

\* findByIdAndUpdate; when the series has been deleted meanwhile it finds
\* nothing, and the handler answers with success all the same.
UpdateWrite(p) ==
  /\ pc[p] = "u_write"
  /\ LET id == req[p].id
     IN IF id \notin DOMAIN store
        THEN UNCHANGED <<store, nextSid, interfered>>
        ELSE LET new == UpdatedDocument(store[id], req[p].body,
                                        loc[p].sessions, nextSid)
             IN /\ store' = [store EXCEPT ![id] = new]
                /\ nextSid' = nextSid + Len(loc[p].sessions)
                /\ interfered' =
                     MarkInterfered(p, new.assignedRoom, new.assignedInstructor)
  /\ Finish(p, Committed(req[p], << >>))
  /\ UNCHANGED <<nextSeriesId, clock, started, mode, conc>>

\* ------------------------------------------------------------------------
\* updateSingleInstance
\* ------------------------------------------------------------------------

\* findById is answered: the series and the session are looked up, and the
\* conflict queries for the new slot are issued.
EditLoad(p) ==
  /\ CanStart(p)
  /\ Begin(p)
  /\ \E id \in SeriesIds, times \in EditTimes, reason \in Reasons :
       \E sid \in SessionIdsOf(id) \cup {NoId} :
          LET r == [NoReq EXCEPT !.n = started + 1, !.op = "edit",
                                 !.id = id, !.sid = sid,
                                 !.newStart = times[1], !.newEnd = times[2],
                                 !.reason = reason]
          IN IF id \notin DOMAIN store
             THEN Finish(p, Rejected(r, << >>, "NotFoundError"))
             ELSE LET idx == IndexOfId(store[id].preGeneratedClassSessions, sid)
                  IN IF idx = 0
                     THEN Finish(p, Rejected(r, << >>, "NotFoundError"))
                     ELSE Continue(p, "e_check", r,
                                   [NoLoc EXCEPT !.doc = store[id],
                                                 !.idx = idx])
  /\ UNCHANGED <<store, nextSeriesId, nextSid, clock, mode>>

\* An edit that saves without asking the detector.
EditCheckUnchecked(p) ==
  /\ pc[p] = "e_check"
  /\ Continue(p, "e_save", req[p], loc[p])
  /\ UNCHANGED <<store, nextSeriesId, nextSid, clock, started, mode,
                 interfered, conc>>

\* The conflict queries are answered; without a conflict the loaded
\* document is changed in memory and save() is issued.
EditCheck(p) ==
  /\ pc[p] = "e_check"
  /\ LET conflict ==
           findDetailedSchedulingConflict(store,
             << [s |-> req[p].newStart, e |-> req[p].newEnd] >>,
             loc[p].doc.assignedRoom, loc[p].doc.assignedInstructor, req[p].id)
     IN IF conflict.found
        THEN Finish(p, Rejected(req[p], << >>, "ConflictError"))
        ELSE Continue(p, "e_save", req[p], loc[p])
  /\ UNCHANGED <<store, nextSeriesId, nextSid, clock, started, mode,
                 interfered, conc>>

\* $set of preGeneratedClassSessions.<idx>.sessionStartDateTime and
\* .sessionEndDateTime on the stored array; an index past its end makes the
\* database fill the gap with nulls and create the element.
SetSessionAt(sessions, idx, newStart, newEnd) ==
  IF idx <= Len(sessions)
  THEN [sessions EXCEPT ![idx].s = newStart, ![idx].e = newEnd,
                        ![idx].hist = Append(@, newStart)]
  ELSE [i \in 1..idx |->
          IF i <= Len(sessions) THEN sessions[i]
          ELSE IF i < idx
          THEN [id |-> NoId, s |-> NaN, e |-> NaN, g |-> NaN, hist |-> << >>]
          ELSE [id |-> NoId, s |-> newStart, e |-> newEnd, g |-> newStart,
                hist |-> << newStart >>]]

\* The exceptions after the upsert of the handler: exIdx is the index found
\* in the loaded document, session the loaded session; g (a history field)
\* remembers the start the edited session was generated with.
UpsertException(exceptions, exIdx, session, newStart, newEnd, reason) ==
  IF exIdx # 0
  THEN [exceptions EXCEPT ![exIdx].newStart = newStart,
                          ![exIdx].newEnd = newEnd]
  ELSE Append(exceptions,
              [originalStart |-> session.s, status |-> "modified",
               newStart |-> newStart, newEnd |-> newEnd,
               reason |-> IF reason = "" THEN "Manual override" ELSE reason,
               g |-> session.g])

\* series.save() of the edited document.  Mongoose sends the changes only:
\* the two fields of the session by its array index, and the new exception
\* as a $push (which bumps __v) or the two fields of the existing one by
\* index; the update is conditioned on the __v that was loaded and throws a
\* VersionError when no document matches.
EditSave(p) ==
  /\ pc[p] = "e_save"
  /\ LET id == req[p].id
         doc == loc[p].doc
         session == doc.preGeneratedClassSessions[loc[p].idx]
         exIdx == findIndexByOriginalStart(doc.exceptions, session.s)
     IN IF id \notin DOMAIN store \/ store[id].v # doc.v
        THEN /\ Finish(p, Rejected(req[p], << >>, "VersionError"))
             /\ UNCHANGED <<store, interfered>>
        ELSE /\ store' =
                  [store EXCEPT
                     ![id].preGeneratedClassSessions =
                        SetSessionAt(@, loc[p].idx, req[p].newStart,
                                     req[p].newEnd),
                     ![id].exceptions =
                        UpsertException(@, exIdx, session, req[p].newStart,
                                        req[p].newEnd, req[p].reason),
                     ![id].v = IF exIdx = 0 THEN @ + 1 ELSE @]
             /\ interfered' =
                  MarkInterfered(p, store[id].assignedRoom,
                                 store[id].assignedInstructor)
             /\ Finish(p, Committed(req[p], << >>))
  /\ UNCHANGED <<nextSeriesId, nextSid, clock, started, mode, conc>>

\* ------------------------------------------------------------------------
\* cancelSingleInstance
\* ------------------------------------------------------------------------

\* findById is answered: the series and the session are looked up, the
\* loaded document is changed in memory and save() is issued.
CancelLoad(p) ==
  /\ CanStart(p)
  /\ Begin(p)
  /\ \E id \in SeriesIds, reason \in Reasons :
       \E sid \in SessionIdsOf(id) \cup {NoId} :
          LET r == [NoReq EXCEPT !.n = started + 1, !.op = "cancel",
                                 !.id = id, !.sid = sid, !.reason = reason]
          IN IF id \notin DOMAIN store
             THEN Finish(p, Rejected(r, << >>, "NotFoundError"))
             ELSE LET idx == IndexOfId(store[id].preGeneratedClassSessions, sid)
                  IN IF idx = 0
                     THEN Finish(p, Rejected(r, << >>, "NotFoundError"))
                     ELSE Continue(p, "x_save", r,
                                   [NoLoc EXCEPT !.doc = store[id],
                                                 !.idx = idx])
  /\ UNCHANGED <<store, nextSeriesId, nextSid, clock, mode>>

\* series.exceptions.push({originalStart, status: "cancelled", reason}); g (a
\* history field the code does not have) remembers the start the cancelled
\* session was generated with.
PushCancelled(exceptions, session, reason) ==
  Append(exceptions,
         [originalStart |-> session.s, status |-> "cancelled",
          newStart |-> Undefined, newEnd |-> Undefined,
          reason |-> IF reason = "" THEN "Cancelled by user" ELSE reason,
          g |-> session.g])

\* series.preGeneratedClassSessions.pull(sessionId)
PullSession(sessions, sid) ==
  LET Keep(sess) == sess.id # sid
  IN SelectSeq(sessions, Keep)

\* series.save() of the document with the cancellation: a $push on
\* exceptions and a $pull on preGeneratedClassSessions, both bumping __v and
\* neither conditioned on it; it throws when the document is gone.
CancelSave(p) ==
  /\ pc[p] = "x_save"
  /\ LET id == req[p].id
         session == loc[p].doc.preGeneratedClassSessions[loc[p].idx]
     IN IF id \notin DOMAIN store
        THEN /\ Finish(p, Rejected(req[p], << >>, "DocumentNotFoundError"))
             /\ UNCHANGED store
        ELSE /\ store' =
                  [store EXCEPT
                     ![id].exceptions =
                        PushCancelled(@, session, req[p].reason),
                     ![id].preGeneratedClassSessions =
                        PullSession(@, req[p].sid),
                     ![id].v = @ + 1]
             /\ Finish(p, Committed(req[p], << >>))
  /\ UNCHANGED <<nextSeriesId, nextSid, clock, started, mode, interfered,
                 conc>>

\* ------------------------------------------------------------------------
\* deleteEntireClassSeries
\* ------------------------------------------------------------------------

\* A delete that answers with success and leaves the document in the
\* collection.
DeleteSoft(p) ==
  /\ CanStart(p)
  /\ Begin(p)
  /\ \E id \in SeriesIds :
       /\ store' = store
       /\ Finish(p, Committed([NoReq EXCEPT !.n = started + 1,
                                            !.op = "delete", !.id = id],
                              << >>))
  /\ UNCHANGED <<nextSeriesId, nextSid, clock, mode>>

\* findByIdAndDelete, answered with success whether or not the id exists.
Delete(p) ==
  /\ CanStart(p)
  /\ Begin(p)
  /\ \E id \in SeriesIds :
       /\ store' = [k \in DOMAIN store \ {id} |-> store[k]]
       /\ Finish(p, Committed([NoReq EXCEPT !.n = started + 1,
                                            !.op = "delete", !.id = id],
                              << >>))
  /\ UNCHANGED <<nextSeriesId, nextSid, clock, mode>>

\* ------------------------------------------------------------------------
\* Time passes
\* ------------------------------------------------------------------------

Tick ==
  /\ clock < Len(ClockTimes)
  /\ clock' = clock + 1
  /\ UNCHANGED <<store, nextSeriesId, nextSid, pc, req, loc, outcome, started,
                 mode, interfered, conc>>

\* ------------------------------------------------------------------------
\* Specifications
\* ------------------------------------------------------------------------

Step(p) ==
  \/ Create(p)
  \/ CreateCheck(p)
  \/ CreateWrite(p)
  \/ UpdateLoad(p)
  \/ UpdateCheck(p)
  \/ UpdateWrite(p)
  \/ EditLoad(p)
  \/ EditCheck(p)
  \/ EditSave(p)
  \/ CancelLoad(p)
  \/ CancelSave(p)
  \/ Delete(p)

Next == Tick \/ \E p \in Procs : Step(p)

\* The handlers of concurrent requests interleave at their awaits.
Spec == Init /\ [][Next]_vars

\* Every request is answered before the next one is sent.
SeqSpec == SeqInit /\ [][Next]_vars

\* The handler of p is resumed after an await: the database has answered
\* the query or the write it issued.
Resume(p) ==
  \/ CreateCheck(p)
  \/ CreateWrite(p)
  \/ UpdateCheck(p)
  \/ UpdateWrite(p)
  \/ EditCheck(p)
  \/ EditSave(p)
  \/ CancelSave(p)

\* Concurrent requests on a database that answers every operation and an
\* event loop that resumes every handler whose await has settled.  Nothing
\* obliges a client to send a request or the clock to advance.
FairSpec == Init /\ [][Next]_vars /\ \A p \in Procs : WF_vars(Resume(p))

\* The document an earlier create request for one session on day 1 in room
\* R1 with instructor I1 left in the collection.
StoredSeries ==
  NewDocument(Body(RuleSingle, <<"R1", "I1">>),
              WithOrigin(generateAllClassSessions(RuleSingle,
                                                  ClockTimes[1]).sessions),
              1)

\* The server is started against a collection that holds that series.
StoredInit ==
  /\ store = << StoredSeries >>
  /\ nextSeriesId = 2
  /\ nextSid = 2
  /\ clock = 1
  /\ pc = [p \in Procs |-> "idle"]
  /\ req = [p \in Procs |-> NoReq]
  /\ loc = [p \in Procs |-> NoLoc]
  /\ outcome = [p \in Procs |-> NoOutcome]
  /\ started = 0
  /\ interfered = [p \in Procs |-> FALSE]
  /\ conc = [p \in Procs |-> {}]
  /\ mode = "serial"

\* Requests sent one after the other to a server whose collection already
\* holds a series.
StoredSpec == StoredInit /\ [][Next]_vars

\* ------------------------------------------------------------------------
\* The occurrence generator on its own
\* ------------------------------------------------------------------------

\* Lists of time slots: none; 09:00-10:00; 09:00-10:00 and 10:00-11:00;
\* 09:00-10:00 and 09:30-10:30; an unparsable slot, a slot that ends before
\* it starts and a slot of 20 minutes, each alone and after 09:00-10:00.
GenSlotLists ==
  {<< >>,
   << Slot(9, 0, 10, 0) >>,
   << Slot(9, 0, 10, 0), Slot(10, 0, 11, 0) >>,
   << Slot(9, 0, 10, 0), Slot(9, 30, 10, 30) >>,
   << Slot(9, NaN, 10, 0) >>,
   << Slot(10, 0, 9, 0) >>,
   << Slot(9, 0, 9, 20) >>,
   << Slot(9, 0, 10, 0), Slot(9, NaN, 10, 0) >>,
   << Slot(9, 0, 10, 0), Slot(10, 0, 9, 0) >>,
   << Slot(9, 0, 10, 0), Slot(9, 0, 9, 20) >>}

GenRecurrenceTypes == {"none", "daily", "weekly", "monthly", "custom"}

\* seriesEndDate: absent, the day before the start, the start day, the day
\* after it, a week after it.
GenEndDates == {Undefined, 0, 1, 2, 8}

\* selectedWeekdays: none, Tuesday (the weekday of day 1).
GenWeekdays == {<< >>, << 2 >>}

\* selectedMonthDays: none, the 2nd (day 1 is 2024-01-02), the 31st.
GenMonthDays == {<< >>, << 2 >>, << 31 >>}

GenIntervals == {Undefined, 2}

\* manuallyChosenDates: none, one date, the same date twice, an unparsable
\* date and a date.
GenManualDates == {<< >>, << 2 >>, << 2, 2 >>, << NaN, 3 >>}

\* Payloads on longer stretches of the calendar, each with the one time slot
\* 09:00-10:00: three days from 2024-01-01; every second Monday from
\* 2024-01-01 to 2024-02-28; days of the month from 2024-01-01 to 2024-03-01
\* (a leap year) and from 2025-01-31 to 2025-03-01; three weeks of a custom
\* pattern; manual dates with other start and end dates.
GenCalendarPayloads ==
  LET slots == << Slot(9, 0, 10, 0) >>
  IN {[Rule("daily", 0, 2, slots) EXCEPT !.repeatEveryXWeeksOrDays = 1],
      [Rule("weekly", 0, 58, slots) EXCEPT !.repeatEveryXWeeksOrDays = 2,
                                           !.selectedWeekdays = << 1 >>]}
     \cup {[Rule("monthly", 0, 60, slots) EXCEPT !.selectedMonthDays = days] :
             days \in {<< 31 >>, << 29, 31 >>, << 30 >>, << 15 >>}}
     \cup {[Rule("monthly", 396, 425, slots) EXCEPT !.selectedMonthDays = days] :
             days \in {<< 31 >>, << 28, 31 >>}}
     \cup {[Rule("custom", 1, 21, slots) EXCEPT
               !.repeatEveryXWeeksOrDays = every, !.selectedWeekdays = weekdays] :
             every \in {Undefined, 2}, weekdays \in {<< >>, << 2, 4 >>}}
     \cup {[Rule("custom", start, end, slots) EXCEPT
               !.manuallyChosenDates = << 2, NaN, 9 >>,
               !.repeatEveryXWeeksOrDays = every, !.selectedWeekdays = weekdays] :
             start \in {Undefined, 5}, end \in {Undefined, 0},
             every \in {Undefined, 2}, weekdays \in {<< >>, << 1 >>}}

\* The payloads generateAllClassSessions is called with: every combination
\* of the values above on seriesStartDate day 1, and the calendar payloads.
GenPayloads ==
  GenCalendarPayloads \cup
  {[recurrenceType |-> type, seriesStartDate |-> 1, seriesEndDate |-> end,
    dailyTimeSlots |-> slots, selectedWeekdays |-> weekdays,
    selectedMonthDays |-> monthDays, repeatEveryXWeeksOrDays |-> every,
    manuallyChosenDates |-> dates] :
     type \in GenRecurrenceTypes, end \in GenEndDates, slots \in GenSlotLists,
     weekdays \in GenWeekdays, monthDays \in GenMonthDays,
     every \in GenIntervals, dates \in GenManualDates}

\* The locals of a handler after its call of the generator: the sessions
\* returned or the kind of the error thrown, and the generator's
\* earliestAllowedStart.
GenLocals(generated, earliestAllowedStart) ==
  [sessions |-> generated.sessions, gen |-> generated.sessions,
   doc |-> NoDoc, idx |-> 0, err |-> generated.err,
   earliestAllowedStart |-> earliestAllowedStart]

\* The times of the call (new Date()): the start of day 0, and 08:30 and
\* 09:00 on day 1.
GenCallTimes == {0, 1950, 1980}

GenInit == InitCommon /\ mode = "generator"

\* const generatedSessions = generateAllClassSessions(req.body), called once,
\* at time now.
Generate ==
  /\ mode = "generator"
  /\ req[1].op = "none"
  /\ \E payload \in GenPayloads, now \in GenCallTimes :
       /\ req' = [req EXCEPT ![1] =
                    [NoReq EXCEPT !.op = "generate",
                                  !.body = Body(payload, << NoRes, NoRes >>)]]
       /\ loc' = [loc EXCEPT ![1] =
                    GenLocals(generateAllClassSessions(payload, now),
                              now + LeadTimeMinutes)]
  /\ UNCHANGED <<store, nextSeriesId, nextSid, clock, pc, outcome, started,
                 mode, interfered, conc>>

\* generateAllClassSessions is called again with the same payload, at the
\* same or a later time; the second result is kept in loc[2].
Regenerate ==
  /\ mode = "generator"
  /\ req[1].op = "generate"
  /\ req[2].op = "none"
  /\ \E now \in GenCallTimes :
       /\ now + LeadTimeMinutes >= loc[1].earliestAllowedStart
       /\ req' = [req EXCEPT ![2] = req[1]]
       /\ loc' = [loc EXCEPT ![2] =
                    GenLocals(generateAllClassSessions(req[1].body.rule, now),
                              now + LeadTimeMinutes)]
  /\ UNCHANGED <<store, nextSeriesId, nextSid, clock, pc, outcome, started,
                 mode, interfered, conc>>

GenNext == Generate \/ Regenerate

GenSpec == GenInit /\ [][GenNext]_vars

\* ------------------------------------------------------------------------
\* The conflict detector on its own
\* ------------------------------------------------------------------------

\* Windows on day 1: 09:00-10:00, 10:00-11:00, 09:30-10:30, 09:00-10:01.
DetWindows ==
  {[s |-> 1980, e |-> 2040], [s |-> 2040, e |-> 2100],
   [s |-> 2010, e |-> 2070], [s |-> 1980, e |-> 2041]}

\* The session lists of the stored series: one window, or 09:00-10:00 and
\* 10:00-11:00.
DetStoredSessions ==
  {<< w >> : w \in DetWindows}
    \cup {<< [s |-> 1980, e |-> 2040], [s |-> 2040, e |-> 2100] >>}

\* The lists of requested sessions; the empty one is what an update is left
\* with when every generated session is cancelled.
DetRequestedSessions == DetStoredSessions \cup {<< >>}

DetRooms == {"R1", "R2"}

DetInstructors == {"I1", "I2"}

\* The documents of the collection the detector is run against.
DetDocuments ==
  {NewDocument(Body(RuleSingle, << room, instr >>), WithOrigin(sessions), 1) :
     room \in DetRooms, instr \in DetInstructors,
     sessions \in DetStoredSessions}

\* The collections: up to MaxSeries documents.
DetStores ==
  UNION {[1..n -> DetDocuments] : n \in 0..MaxSeries}

\* The locals of a handler around its call of the detector.
DetLocals(requestedSessions, conflict) ==
  [sessions |-> requestedSessions, gen |-> << >>, doc |-> NoDoc, idx |-> 0,
   conflict |-> conflict]

DetInit ==
  /\ store \in DetStores
  /\ nextSeriesId = Len(store) + 1
  /\ nextSid = 2
  /\ clock = 1
  /\ pc = [p \in Procs |-> "idle"]
  /\ req = [p \in Procs |-> NoReq]
  /\ loc = [p \in Procs |-> NoLoc]
  /\ outcome = [p \in Procs |-> NoOutcome]
  /\ started = 0
  /\ interfered = [p \in Procs |-> FALSE]
  /\ conc = [p \in Procs |-> {}]
  /\ mode = "detector"

\* const conflict = await findDetailedSchedulingConflict(requestedSessions,
\* targetRoomId, targetInstructorId, ignoreSeriesId), called once.
Detect ==
  /\ mode = "detector"
  /\ req[1].op = "none"
  /\ \E requestedSessions \in DetRequestedSessions,
        targetRoomId \in DetRooms \cup {NoRes},
        targetInstructorId \in DetInstructors,
        ignoreSeriesId \in SeriesIds \cup {NoId} :
       /\ req' = [req EXCEPT ![1] =
                    [NoReq EXCEPT !.op = "detect",
                                  !.body = Body(RuleSingle, << targetRoomId, targetInstructorId >>),
                                  !.id = ignoreSeriesId]]
       /\ loc' = [loc EXCEPT ![1] =
                    DetLocals(requestedSessions,
                              findDetailedSchedulingConflict(store,
                                requestedSessions, targetRoomId,
                                targetInstructorId, ignoreSeriesId))]
  /\ UNCHANGED <<store, nextSeriesId, nextSid, clock, pc, outcome, started,
                 mode, interfered, conc>>

DetNext == Detect

DetSpec == DetInit /\ [][DetNext]_vars

\* ------------------------------------------------------------------------
\* Properties
\* ------------------------------------------------------------------------

Sessions(id) == store[id].preGeneratedClassSessions

SharesResource(a, b) ==
  \/ store[a].assignedRoom = store[b].assignedRoom
  \/ store[a].assignedInstructor = store[b].assignedInstructor

\* C1: no session of a series overlaps a session of another series that has
\* the same room or the same instructor, whatever the interleaving of the
\* requests.
C1_NoCrossSeriesOverlap ==
  \A a \in DOMAIN store : \A b \in DOMAIN store \ {a} :
     SharesResource(a, b) =>
        \A i \in 1..Len(Sessions(a)) : \A j \in 1..Len(Sessions(b)) :
           ~ Overlaps(Sessions(a)[i], Sessions(b)[j])

\* The last requests of p and q were create requests that ran concurrently,
\* for overlapping windows on the same room or the same instructor, and both
\* have been answered.
ConcurrentOverlappingCreates(p, q) ==
  /\ p # q
  /\ pc[p] = "idle" /\ pc[q] = "idle"
  /\ outcome[p].op = "create" /\ outcome[q].op = "create"
  /\ q \in conc[p] /\ p \in conc[q]
  /\ \/ outcome[p].room = outcome[q].room
     \/ outcome[p].instr = outcome[q].instr
  /\ \E i \in 1..Len(outcome[p].windows) :
        \E j \in 1..Len(outcome[q].windows) :
           Overlaps(outcome[p].windows[i], outcome[q].windows[j])

\* C2: of concurrent create requests for overlapping windows on one resource
\* exactly one is committed, the others are rejected with ConflictError or
\* ConcurrencyError (stated for every two of them: they are not both
\* committed, and next to a committed one the other has one of those errors
\* unless the schema refused it).
C2_ExactlyOneCommitted ==
  \A p \in Procs : \A q \in Procs :
     ConcurrentOverlappingCreates(p, q) /\ outcome[p].status = "Committed" =>
        /\ outcome[q].status = "Rejected"
        /\ outcome[q].err \in
             {"ConflictError", "ConcurrencyError", "ValidationError"}

\* C3: a create or whole-series update that commits has checked and written
\* under a lock on its room and instructor, so that no other request wrote
\* sessions on that room or instructor between its conflict check and its
\* write.
C3_NoWriteBetweenCheckAndCommit ==
  \A p \in Procs :
     /\ outcome[p].status = "Committed"
     /\ outcome[p].op \in {"create", "update"}
     /\ pc[p] = "idle"
     => ~ interfered[p]

\* C4: the exceptions of a series hold at most one Exception for each
\* originalStart.
C4_OneExceptionPerOriginalStart ==
  \A id \in DOMAIN store :
     \A i \in 1..Len(store[id].exceptions) :
        \A j \in 1..Len(store[id].exceptions) :
           i # j => store[id].exceptions[i].originalStart
                      # store[id].exceptions[j].originalStart

\* The positions of the exceptions of series id with originalStart = start.
ExceptionsAt(id, start) ==
  {k \in 1..Len(store[id].exceptions) :
     store[id].exceptions[k].originalStart = start}

\* C5: a session edited twice since it was generated at S (to T1, then to T2)
\* has exactly one Exception, with originalStart = S, status modified and
\* newStart = T2.
C5_SecondEditUpdatesRecord ==
  \A id \in DOMAIN store : \A i \in 1..Len(Sessions(id)) :
     LET x == Sessions(id)[i]
     IN Len(x.hist) = 3 /\ x.hist[1] = x.g =>
          /\ Cardinality(ExceptionsAt(id, x.g)) = 1
          /\ \A k \in ExceptionsAt(id, x.g) :
                /\ store[id].exceptions[k].status = "modified"
                /\ store[id].exceptions[k].newStart = x.hist[3]
          /\ ExceptionsAt(id, x.hist[2]) \subseteq ExceptionsAt(id, x.g)

\* The write of a whole-series update of p that finds its series.
UpdateCommits(p) ==
  /\ pc[p] = "u_write"
  /\ pc'[p] = "idle"
  /\ req[p].id \in DOMAIN store

\* A modified Exception with originalStart = start exists.
HasModified(exceptions, start) ==
  \E k \in 1..Len(exceptions) :
     exceptions[k].originalStart = start /\ exceptions[k].status = "modified"

\* The first modified Exception with originalStart = start.
ModifiedFor(exceptions, start) ==
  exceptions[CHOOSE k \in 1..Len(exceptions) :
               /\ exceptions[k].originalStart = start
               /\ exceptions[k].status = "modified"
               /\ \A h \in 1..(k - 1) :
                     ~ (exceptions[h].originalStart = start
                        /\ exceptions[h].status = "modified")]

\* A cancelled Exception with originalStart = start exists.
HasCancelled(exceptions, start) ==
  \E k \in 1..Len(exceptions) :
     exceptions[k].originalStart = start /\ exceptions[k].status = "cancelled"

\* The start a generated session has once the modified Exceptions have been
\* applied.
StartAfterReplacement(exceptions, start) ==
  IF HasModified(exceptions, start)
  THEN ModifiedFor(exceptions, start).newStart
  ELSE start

\* The session generated at start is among the sessions stored.
StoredFrom(sessions, start) ==
  \E j \in 1..Len(sessions) : sessions[j].g = start

StoredAs(sessions, gen, start, end) ==
  \E j \in 1..Len(sessions) :
     sessions[j].g = gen /\ sessions[j].s = start /\ sessions[j].e = end

\* No Exception has originalStart = start.
NoExceptionAt(exceptions, start) ==
  \A k \in 1..Len(exceptions) : exceptions[k].originalStart # start

C8_UpdateKeepsExceptions ==
  [][\A p \in Procs :
       UpdateCommits(p) =>
         /\ req[p].id \in DOMAIN store'
         /\ store'[req[p].id].exceptions = store[req[p].id].exceptions]_vars

\* A whole-series update has been committed on a series that has exceptions.
C8_Witness ==
  \E p \in Procs :
     /\ outcome[p].op = "update" /\ outcome[p].status = "Committed"
     /\ pc[p] = "idle"
     /\ outcome[p].id \in DOMAIN store
     /\ Len(store[outcome[p].id].exceptions) > 0
     /\ \A q \in Procs : outcome[q].n <= outcome[p].n

\* C9: every stored session ends after it starts and lasts at least 30
\* minutes.
C9_SessionsWellFormed ==
  \A id \in DOMAIN store : \A i \in 1..Len(Sessions(id)) :
     /\ Sessions(id)[i].e > Sessions(id)[i].s
     /\ Sessions(id)[i].e - Sessions(id)[i].s
          >= MINIMUM_ALLOWED_DURATION_MINUTES

\* C10: the store changes only in the step in which a request is answered
\* as committed: a request that ends rejected has written nothing, neither
\* in its last step nor in an earlier one.
C10_RejectedWritesNothing ==
  [][store' # store =>
       \E p \in Procs :
          /\ outcome'[p] # outcome[p]
          /\ outcome'[p].status = "Committed"]_vars

\* The latest request answered, a create, a whole-series update or a
\* single-instance edit, has been rejected for a conflict, a generation
\* error or an unknown id, while the store holds a series.
C10_Witness ==
  /\ DOMAIN store # {}
  /\ \E p \in Procs :
        /\ outcome[p].status = "Rejected"
        /\ outcome[p].op \in {"create", "update", "edit"}
        /\ outcome[p].err \in {"ConflictError", "InputError", "NotFoundError"}
        /\ \A q \in Procs : outcome[q].n <= outcome[p].n

\* The detector has been called.
Detected == mode = "detector" /\ req[1].op = "detect"

\* The detector returned null.
ReturnedNull == loc[1].conflict.err = "none" /\ ~ loc[1].conflict.found

\* Series k, which is not the excluded one, has the target of the given
\* field and holds a session that overlaps a requested one.
ConflictsOn(k, field) ==
  /\ k # req[1].id
  /\ store[k][field] = req[1].body[field]
  /\ \E i \in 1..Len(Sessions(k)) : \E j \in 1..Len(loc[1].sessions) :
        /\ loc[1].sessions[j].s < Sessions(k)[i].e
        /\ loc[1].sessions[j].e > Sessions(k)[i].s

\* C11: the detector returns null exactly when no series other than the
\* excluded one that has the target room or the target instructor holds a
\* session overlapping a requested session.
C11_NullIffNoOverlap ==
  Detected =>
    (ReturnedNull <=>
       ~ \E k \in DOMAIN store :
            ConflictsOn(k, "assignedRoom") \/ ConflictsOn(k, "assignedInstructor"))

\* Series k is not the excluded one and has the target room or the target
\* instructor.
OnTargetResource(k) ==
  /\ k # req[1].id
  /\ \/ store[k].assignedRoom = req[1].body.assignedRoom
     \/ store[k].assignedInstructor = req[1].body.assignedInstructor

\* C12: sessions on the same resource conflict iff each starts before the
\* other ends: requested sessions that at most touch the stored sessions on
\* the target resources are accepted, and a requested session that extends by
\* a minute or more into such a stored session is rejected as a conflict.
C12_TouchingIsNoConflict ==
  Detected /\ Len(loc[1].sessions) > 0 =>
    /\ (\A k \in DOMAIN store : OnTargetResource(k) =>
          \A i \in 1..Len(Sessions(k)) : \A j \in 1..Len(loc[1].sessions) :
             \/ loc[1].sessions[j].e <= Sessions(k)[i].s
             \/ loc[1].sessions[j].s >= Sessions(k)[i].e)
        => ReturnedNull
    /\ (\E k \in DOMAIN store :
          /\ OnTargetResource(k)
          /\ \E i \in 1..Len(Sessions(k)) : \E j \in 1..Len(loc[1].sessions) :
                /\ loc[1].sessions[j].e - Sessions(k)[i].s >= 1
                /\ Sessions(k)[i].e - loc[1].sessions[j].s >= 1)
        => loc[1].conflict.found

\* The detector has returned null for 09:00-10:00 requested in a room in
\* which a stored series holds 10:00-11:00.
C12_Witness ==
  /\ Detected
  /\ ReturnedNull
  /\ loc[1].sessions = << [s |-> 1980, e |-> 2040] >>
  /\ \E k \in DOMAIN store :
        /\ k # req[1].id
        /\ store[k].assignedRoom = req[1].body.assignedRoom
        /\ \E i \in 1..Len(Sessions(k)) :
              Sessions(k)[i].s = 2040 /\ Sessions(k)[i].e = 2100

Max(a, b) == IF a >= b THEN a ELSE b

Min(a, b) == IF a <= b THEN a ELSE b

\* The requested sessions overlap a stored session of another series on the
\* target room, and none on the target instructor.
RoomOnlyConflict ==
  /\ \E k \in DOMAIN store : ConflictsOn(k, "assignedRoom")
  /\ ~ \E k \in DOMAIN store : ConflictsOn(k, "assignedInstructor")

\* C17: a request that overlaps a stored session of another series on the
\* room only gets a conflict report that names the room and gives the
\* window from the later of the two starts to the earlier of the two ends of
\* a requested and a stored session that overlap.
C17_ReportsOverlapWindow ==
  Detected /\ RoomOnlyConflict =>
    /\ loc[1].conflict.found
    /\ loc[1].conflict.field = "assignedRoom"
    /\ loc[1].conflict.entityName = "Room"
    /\ \E k \in DOMAIN store :
          /\ ConflictsOn(k, "assignedRoom")
          /\ \E i \in 1..Len(Sessions(k)) : \E j \in 1..Len(loc[1].sessions) :
                /\ loc[1].sessions[j].s < Sessions(k)[i].e
                /\ loc[1].sessions[j].e > Sessions(k)[i].s
                /\ loc[1].conflict.s = Max(loc[1].sessions[j].s, Sessions(k)[i].s)
                /\ loc[1].conflict.e = Min(loc[1].sessions[j].e, Sessions(k)[i].e)

\* C18: the report is tagged with the instructor whenever a series conflicts
\* on the instructor, and with the room when series conflict on the room
\* only; when one series conflicts on the instructor and a different one on
\* the room, the report names both.
C18_FieldTag ==
  Detected =>
    /\ (\E k \in DOMAIN store : ConflictsOn(k, "assignedInstructor"))
        => /\ loc[1].conflict.found
           /\ loc[1].conflict.field = "assignedInstructor"
    /\ RoomOnlyConflict
        => /\ loc[1].conflict.found
           /\ loc[1].conflict.field = "assignedRoom"
    /\ (\E k \in DOMAIN store : \E h \in DOMAIN store \ {k} :
          /\ ConflictsOn(k, "assignedInstructor")
          /\ ConflictsOn(h, "assignedRoom"))
        => loc[1].conflict.entityName = "Instructor AND Room"

\* The detector has reported a request that conflicts with one series on
\* the instructor only and with a different series on the room only.
C18_Witness ==
  /\ Detected
  /\ loc[1].conflict.found
  /\ \E k \in DOMAIN store : \E h \in DOMAIN store \ {k} :
        /\ ConflictsOn(k, "assignedInstructor")
        /\ ~ ConflictsOn(k, "assignedRoom")
        /\ ConflictsOn(h, "assignedRoom")
        /\ ~ ConflictsOn(h, "assignedInstructor")

\* The generator has been called.
Generated == mode = "generator" /\ req[1].op = "generate"

\* The rule the generator was called with.
GenRule == req[1].body.rule

Unparsable(slot) == NaN \in {slot.sh, slot.sm, slot.eh, slot.em}

\* Minutes from the start of the slot to its end.
SlotDuration(slot) ==
  (slot.eh * MinutesPerHour + slot.em) - (slot.sh * MinutesPerHour + slot.sm)

\* The error kind of a time window that is not valid, "none" of a valid one.
WindowErrorKind(slot) ==
  IF Unparsable(slot) THEN "InputError"
  ELSE IF SlotDuration(slot) <= 0 THEN "RangeError"
  ELSE IF SlotDuration(slot) < 30 THEN "RangeError"
  ELSE "none"

\* What the generator answers at the same time for the rule with all its
\* time windows replaced by 09:00-10:00.
WithValidWindow(rule) ==
  generateAllClassSessions(
    [rule EXCEPT !.dailyTimeSlots = << Slot(9, 0, 10, 0) >>],
    loc[1].earliestAllowedStart - LeadTimeMinutes)

\* C13: generation for a rule with a time window that is unparsable, ends
\* at or before its start or is shorter than 30 minutes fails with the error
\* kind of that window, also when other windows of the rule are valid (stated
\* for the rules that generate sessions once their windows are valid).
C13_InvalidWindowRejects ==
  Generated /\ WithValidWindow(GenRule).err = "none" =>
    \A i \in 1..Len(GenRule.dailyTimeSlots) :
       WindowErrorKind(GenRule.dailyTimeSlots[i]) # "none" =>
         loc[1].err = WindowErrorKind(GenRule.dailyTimeSlots[i])

\* The rule repeats by a pattern: its type is daily, weekly or monthly, or
\* custom without manually chosen dates.
RepeatsByPattern(rule) ==
  \/ rule.recurrenceType \in {"daily", "weekly", "monthly"}
  \/ rule.recurrenceType = "custom" /\ Len(rule.manuallyChosenDates) = 0

\* C14: generation fails with InputError and produces no session when the
\* rule has no time window, and when the rule repeats by a pattern and has no
\* seriesEndDate.
C14_InputErrors ==
  Generated =>
    /\ Len(GenRule.dailyTimeSlots) = 0
        => loc[1].err = "InputError" /\ loc[1].sessions = << >>
    /\ RepeatsByPattern(GenRule) /\ GenRule.seriesEndDate = Undefined
        => loc[1].err = "InputError" /\ loc[1].sessions = << >>

\* The sessions the rule generates when none starts too early: those of a
\* call whose earliestAllowedStart is the start of day 0.
AllMatching(rule) == generateAllClassSessions(rule, 0 - LeadTimeMinutes)

\* The sessions of list that start at or after time.
StartingFrom(list, time) ==
  LET Late(sess) == sess.s >= time IN SelectSeq(list, Late)

\* C15: every session the generator returns starts at or after the time of
\* the call plus 30 minutes; the matching sessions that start earlier are
\* dropped and the others returned, and when none is left generation fails
\* with EmptyResultError.
C15_LeadTimeFilter ==
  Generated =>
    /\ \A i \in 1..Len(loc[1].sessions) :
          loc[1].sessions[i].s >= loc[1].earliestAllowedStart
    /\ loc[1].err = "none" => Len(loc[1].sessions) > 0
    /\ AllMatching(GenRule).err = "none" =>
          LET kept == StartingFrom(AllMatching(GenRule).sessions,
                                   loc[1].earliestAllowedStart)
          IN IF Len(kept) > 0
             THEN loc[1].err = "none" /\ loc[1].sessions = kept
             ELSE loc[1].err = "EmptyResultError"

\* The generator, called at 08:30 on day 1, has returned the session of
\* 09:00 on day 1, which starts exactly 30 minutes later.
C15_Witness ==
  /\ Generated
  /\ loc[1].err = "none"
  /\ loc[1].earliestAllowedStart = 1980
  /\ \E i \in 1..Len(loc[1].sessions) : loc[1].sessions[i].s = 1980

\* The time windows of the rule are all valid and no two of them overlap.
ValidDisjointWindows(rule) ==
  /\ \A i \in 1..Len(rule.dailyTimeSlots) :
        WindowErrorKind(rule.dailyTimeSlots[i]) = "none"
  /\ \A i, j \in 1..Len(rule.dailyTimeSlots) :
        i # j => ~Overlaps(createValidClassSessionFromDateAndTimes(0, rule.dailyTimeSlots[i]),
                           createValidClassSessionFromDateAndTimes(0, rule.dailyTimeSlots[j]))

\* No two sessions of the list overlap.
PairwiseDisjoint(list) ==
  \A i, j \in 1..Len(list) : i # j => ~Overlaps(list[i], list[j])

\* C16: the sessions generated for a rule whose time windows are valid and
\* pairwise non-overlapping are pairwise non-overlapping, for every
\* recurrence type and every list of manual dates.
C16_GeneratedSessionsDisjoint ==
  Generated /\ ValidDisjointWindows(GenRule) => PairwiseDisjoint(loc[1].sessions)

\* In this step the handler of p takes a request and answers it at once.
AnsweredAtOnce(p) ==
  /\ pc[p] = "idle" /\ pc'[p] = "idle"
  /\ started' = started + 1
  /\ outcome'[p].n = started + 1

\* C19: an update, edit, cancel or delete addressed to an unknown series id,
\* and an edit or cancel addressed to an unknown occurrence id of an existing
\* series, ends with NotFoundError and leaves the store as it was.  (An edit
\* or cancel of an existing series is answered at once only for an unknown
\* occurrence id; one that goes on has found its occurrence.)
C19_UnknownIdIsNotFound ==
  [][\A p \in Procs :
       /\ ( /\ AnsweredAtOnce(p)
            /\ outcome'[p].op \in {"update", "edit", "cancel", "delete"}
            /\ outcome'[p].id \notin DOMAIN store )
           => outcome'[p].err = "NotFoundError" /\ store' = store
       /\ ( /\ AnsweredAtOnce(p)
            /\ outcome'[p].op \in {"edit", "cancel"}
            /\ outcome'[p].id \in DOMAIN store )
           => outcome'[p].err = "NotFoundError" /\ store' = store
       /\ (pc[p] = "idle" /\ pc'[p] \in {"e_check", "x_save"})
           => /\ req'[p].id \in DOMAIN store
              /\ req'[p].sid \in SessionIdsOf(req'[p].id)]_vars

\* The handler of p is working on a create or a whole-series update.
Handling(p) == pc[p] # "idle" /\ req[p].op \in {"create", "update"}

\* The handler of p has answered its request and returned.
Answered(p) ==
  pc[p] = "idle" /\ outcome[p].status \in {"Committed", "Rejected"}

ValidWindows(rule) ==
  \A i \in 1..Len(rule.dailyTimeSlots) :
    WindowErrorKind(rule.dailyTimeSlots[i]) = "none"

\* The rule walks a range of dates: both ends are given and the start is not
\* after the end.
WalksRange(rule) ==
  /\ rule.seriesStartDate \notin {Undefined, NaN}
  /\ rule.seriesEndDate \notin {Undefined, NaN}
  /\ rule.seriesStartDate <= rule.seriesEndDate

\* The days from..to in ascending order.
DaysBetween(from, to) == [i \in 1..(to - from + 1) |-> from + i - 1]

\* One session per day of the list and time window, day by day.
WindowsOn(dayList, slots) ==
  [k \in 1..(Len(dayList) * Len(slots)) |->
     LET day == dayList[((k - 1) \div Len(slots)) + 1]
         slot == slots[((k - 1) % Len(slots)) + 1]
     IN [s |-> day * MinutesPerDay + slot.sh * MinutesPerHour + slot.sm,
         e |-> day * MinutesPerDay + slot.eh * MinutesPerHour + slot.em]]

\* The generator has answered as it must when exactly the days of dayList
\* match: with their sessions that pass the lead-time filter, or with
\* EmptyResultError when none does.
AnsweredFor(dayList) ==
  LET expected == StartingFrom(WindowsOn(dayList, GenRule.dailyTimeSlots),
                               loc[1].earliestAllowedStart)
  IN IF Len(expected) = 0
     THEN loc[1].err = "EmptyResultError"
     ELSE loc[1].err = "none" /\ loc[1].sessions = expected

\* intervalCount of the rule, 1 when it is not set.
IntervalCount(rule) ==
  IF rule.repeatEveryXWeeksOrDays = Undefined THEN 1
  ELSE rule.repeatEveryXWeeksOrDays

\* Daily, interval 1, 2024-01-01 to 2024-01-03, 09:00-10:00.
ScenarioA == [Rule("daily", 0, 2, << Slot(9, 0, 10, 0) >>) EXCEPT
                !.repeatEveryXWeeksOrDays = 1]

\* C24: for a Daily rule with valid time windows a date in
\* [seriesStart, seriesEnd], both ends included, matches iff
\* (days since seriesStart) mod intervalCount = 0, and every matching date
\* yields one session per time window, subject to the lead-time filter;
\* scenario A yields 09:00-10:00 on Jan 1, 2 and 3.
C24_DailyMatches ==
  Generated /\ GenRule.recurrenceType = "daily" /\ WalksRange(GenRule)
            /\ ValidWindows(GenRule) /\ Len(GenRule.dailyTimeSlots) > 0 =>
    LET Matches(day) ==
          (day - GenRule.seriesStartDate) % IntervalCount(GenRule) = 0
    IN /\ AnsweredFor(SelectSeq(DaysBetween(GenRule.seriesStartDate,
                                            GenRule.seriesEndDate), Matches))
       /\ GenRule = ScenarioA /\ loc[1].earliestAllowedStart <= 540 =>
            loc[1].sessions = << [s |-> 540, e |-> 600],
                                 [s |-> 1980, e |-> 2040],
                                 [s |-> 3420, e |-> 3480] >>

\* Scenario A has been generated before its first session starts.
C24_Witness ==
  /\ Generated /\ GenRule = ScenarioA
  /\ loc[1].err = "none" /\ Len(loc[1].sessions) = 3

\* Weekly, interval 2, Mondays, 2024-01-01 to 2024-02-28, 09:00-10:00.
ScenarioB == [Rule("weekly", 0, 58, << Slot(9, 0, 10, 0) >>) EXCEPT
                !.repeatEveryXWeeksOrDays = 2, !.selectedWeekdays = << 1 >>]

\* The days on which the sessions returned start, in their order.
SessionDays == [i \in 1..Len(loc[1].sessions) |->
                  loc[1].sessions[i].s \div MinutesPerDay]

\* C23: for a Weekly rule with valid time windows a date in
\* [seriesStart, seriesEnd] matches iff (whole weeks since seriesStart) mod
\* intervalCount = 0 and its weekday is in selectedWeekdays; scenario B
\* matches exactly Jan 1, Jan 15, Jan 29, Feb 12 and Feb 26.
C23_WeeklyMatches ==
  Generated /\ GenRule.recurrenceType = "weekly" /\ WalksRange(GenRule)
            /\ ValidWindows(GenRule) /\ Len(GenRule.dailyTimeSlots) > 0 =>
    LET Matches(day) ==
          /\ ((day - GenRule.seriesStartDate) \div DaysPerWeek)
                % IntervalCount(GenRule) = 0
          /\ \E i \in 1..Len(GenRule.selectedWeekdays) :
                GenRule.selectedWeekdays[i] = (day + 1) % DaysPerWeek
    IN /\ AnsweredFor(SelectSeq(DaysBetween(GenRule.seriesStartDate,
                                            GenRule.seriesEndDate), Matches))
       /\ GenRule = ScenarioB /\ loc[1].earliestAllowedStart <= 540 =>
            SessionDays = << 0, 14, 28, 42, 56 >>

\* Scenario B has been generated before its first session starts.
C23_Witness ==
  /\ Generated /\ GenRule = ScenarioB
  /\ loc[1].err = "none" /\ Len(loc[1].sessions) = 5

\* A Monthly rule from 2024-01-01 to 2024-03-01 with the selected days.
MonthlyLeap(days) ==
  [Rule("monthly", 0, 60, << Slot(9, 0, 10, 0) >>) EXCEPT
     !.selectedMonthDays = days]

\* A Monthly rule from 2025-01-31 to 2025-03-01 with the selected days.
MonthlyNoLeap(days) ==
  [Rule("monthly", 396, 425, << Slot(9, 0, 10, 0) >>) EXCEPT
     !.selectedMonthDays = days]

\* C22: for a Monthly rule with valid time windows a date in
\* [seriesStart, seriesEnd] matches iff its day of the month is selected, or
\* it is the last day of its month and a selected day exceeds the length of
\* that month; each matching date yields one session per time window.  With
\* [31] the only date of February is Feb 29 in 2024 and Feb 28 in 2025; with
\* [29, 31] Feb 29 2024, which matches by both conditions, is generated
\* once.
C22_MonthlyMatches ==
  Generated /\ GenRule.recurrenceType = "monthly" /\ WalksRange(GenRule)
            /\ ValidWindows(GenRule) /\ Len(GenRule.dailyTimeSlots) > 0 =>
    LET Selected(n) == \E i \in 1..Len(GenRule.selectedMonthDays) :
                         GenRule.selectedMonthDays[i] = n
        Matches(day) ==
          LET ymd == YearMonthDay(2024, 1, day)
              length == DaysInMonth(ymd[1], ymd[2])
          IN \/ Selected(ymd[3])
             \/ /\ ymd[3] = length
                /\ \E i \in 1..Len(GenRule.selectedMonthDays) :
                      GenRule.selectedMonthDays[i] > length
        early == loc[1].earliestAllowedStart <= 540
    IN /\ AnsweredFor(SelectSeq(DaysBetween(GenRule.seriesStartDate,
                                            GenRule.seriesEndDate), Matches))
       /\ GenRule = MonthlyLeap(<< 31 >>) /\ early
            => SessionDays = << 30, 59 >>
       /\ GenRule = MonthlyLeap(<< 29, 31 >>) /\ early
            => SessionDays = << 28, 30, 59 >>
       /\ GenRule = MonthlyNoLeap(<< 31 >>) /\ early
            => SessionDays = << 396, 424 >>

\* The Monthly rule with [31] has been generated across February 2024.
C22_Witness ==
  /\ Generated /\ GenRule = MonthlyLeap(<< 31 >>)
  /\ loc[1].err = "none" /\ Len(loc[1].sessions) = 2

\* C25: for a Single rule with valid time windows the generator evaluates
\* exactly the date seriesStart and produces one session per time window on
\* it (subject to the lead-time filter), whatever seriesEnd is: absent,
\* equal to, later than or earlier than seriesStart.
C25_SingleEvaluatesStartOnly ==
  Generated /\ GenRule.recurrenceType = "none"
            /\ ValidWindows(GenRule) /\ Len(GenRule.dailyTimeSlots) > 0 =>
    AnsweredFor(<< GenRule.seriesStartDate >>)

\* The rule is of a type that walks from seriesStart to seriesEnd.
WalksToEnd(rule) ==
  \/ rule.recurrenceType \in {"daily", "weekly", "monthly"}
  \/ rule.recurrenceType = "custom" /\ Len(rule.manuallyChosenDates) = 0

\* C29: a Daily, Weekly, Monthly or CustomPattern rule whose seriesStart is
\* after its seriesEnd is rejected with RangeError.
C29_StartAfterEndIsRangeError ==
  Generated /\ WalksToEnd(GenRule) /\ Len(GenRule.dailyTimeSlots) > 0
            /\ GenRule.seriesStartDate \notin {Undefined, NaN}
            /\ GenRule.seriesEndDate \notin {Undefined, NaN}
            /\ GenRule.seriesStartDate > GenRule.seriesEndDate =>
    loc[1].err = "RangeError" /\ loc[1].sessions = << >>

\* The rule is a CustomPattern rule: custom, with no manual dates.
IsCustomPattern(rule) ==
  rule.recurrenceType = "custom" /\ Len(rule.manuallyChosenDates) = 0

\* A CustomPattern rule from day 1 to day 21, 09:00-10:00.
PatternRule(every, weekdays) ==
  [Rule("custom", 1, 21, << Slot(9, 0, 10, 0) >>) EXCEPT
     !.repeatEveryXWeeksOrDays = every, !.selectedWeekdays = weekdays]

\* C26: for a CustomPattern rule with valid time windows seriesEnd is
\* mandatory, an unset intervalCount counts as 1, and a date in
\* [seriesStart, seriesEnd] matches iff (whole weeks since seriesStart) mod
\* intervalCount = 0 and selectedWeekdays is empty or holds its weekday; with
\* interval 2 and no weekday selected every day of the first and of the
\* third week is generated.
C26_CustomPatternMatches ==
  Generated /\ IsCustomPattern(GenRule)
            /\ ValidWindows(GenRule) /\ Len(GenRule.dailyTimeSlots) > 0 =>
    LET Matches(day) ==
          /\ ((day - GenRule.seriesStartDate) \div DaysPerWeek)
                % IntervalCount(GenRule) = 0
          /\ \/ Len(GenRule.selectedWeekdays) = 0
             \/ \E i \in 1..Len(GenRule.selectedWeekdays) :
                   GenRule.selectedWeekdays[i] = (day + 1) % DaysPerWeek
    IN /\ GenRule.seriesEndDate = Undefined => loc[1].err = "InputError"
       /\ WalksRange(GenRule) =>
            AnsweredFor(SelectSeq(DaysBetween(GenRule.seriesStartDate,
                                              GenRule.seriesEndDate), Matches))
       /\ GenRule = PatternRule(2, << >>) /\ loc[1].earliestAllowedStart <= 1980
            => SessionDays = << 1, 2, 3, 4, 5, 6, 7, 15, 16, 17, 18, 19, 20, 21 >>
       /\ GenRule = PatternRule(Undefined, << 2, 4 >>)
             /\ loc[1].earliestAllowedStart <= 1980
            => SessionDays = << 1, 3, 8, 10, 15, 17 >>

\* The CustomPattern rule with interval 2 and no weekday selected has been
\* generated over three weeks.
C26_Witness ==
  /\ Generated /\ GenRule = PatternRule(2, << >>)
  /\ loc[1].err = "none" /\ Len(loc[1].sessions) = 14

\* The rule is a CustomManual rule: custom, with manual dates.
IsCustomManual(rule) ==
  rule.recurrenceType = "custom" /\ Len(rule.manuallyChosenDates) > 0

\* The entries of manualDates that parse, in their order.
ParsableDates(rule) ==
  LET Parses(date) == date # NaN
  IN SelectSeq(rule.manuallyChosenDates, Parses)

\* C27: for a CustomManual rule with valid time windows the generator
\* produces exactly the sessions of the parsable entries of manualDates
\* crossed with every time window (subject to the lead-time filter),
\* whatever seriesStart, seriesEnd, intervalCount and selectedWeekdays are;
\* an unparsable entry is skipped, and the request fails only when no
\* session is left.
C27_ManualDatesOnly ==
  Generated /\ IsCustomManual(GenRule)
            /\ ValidWindows(GenRule) /\ Len(GenRule.dailyTimeSlots) > 0 =>
    AnsweredFor(ParsableDates(GenRule))

\* Manual dates with an unparsable entry between two dates have been
\* generated for a rule whose seriesStart lies after its seriesEnd and after
\* the first date, with an interval and a weekday that match neither date.
C27_Witness ==
  /\ Generated /\ IsCustomManual(GenRule)
  /\ GenRule.manuallyChosenDates = << 2, NaN, 9 >>
  /\ GenRule.seriesStartDate = 5 /\ GenRule.seriesEndDate = 0
  /\ GenRule.repeatEveryXWeeksOrDays = 2
  /\ GenRule.selectedWeekdays = << 1 >>
  /\ loc[1].err = "none" /\ SessionDays = << 2, 9 >>

\* The generator has been called a second time with the same rule.
Regenerated == Generated /\ req[2].op = "generate"

\* The start/end pairs of a list of sessions.
Pairs(list) == {<< list[i].s, list[i].e >> : i \in 1..Len(list)}

\* C28: generating twice from the same rule yields the same set of session
\* start/end pairs, except for the sessions the later generation time
\* excludes through the lead-time buffer; the second result is a subset of
\* the first.
C28_RegenerationIdempotent ==
  Regenerated =>
    /\ Pairs(loc[2].sessions) \subseteq Pairs(loc[1].sessions)
    /\ Pairs(loc[2].sessions) =
         {pair \in Pairs(loc[1].sessions) :
            pair[1] >= loc[2].earliestAllowedStart}

\* The second generation has lost a session to the lead-time buffer and kept
\* another.
C28_Witness ==
  /\ Regenerated
  /\ loc[2].sessions # << >>
  /\ Pairs(loc[2].sessions) # Pairs(loc[1].sessions)

\* C30: no two sessions of one series overlap each other, after any sequence
\* of single-instance edits and whole-series updates on a series created
\* from pairwise non-overlapping time windows (every rule of Rules has one
\* time window).
C30_NoOverlapWithinSeries ==
  \A k \in DOMAIN store :
    \A i, j \in 1..Len(store[k].preGeneratedClassSessions) :
      i # j => ~Overlaps(store[k].preGeneratedClassSessions[i],
                         store[k].preGeneratedClassSessions[j])

\* The <<start, end>> of each session of the list.
TimesOf(sessions) ==
  [i \in 1..Len(sessions) |-> << sessions[i].s, sessions[i].e >>]

\* The save of a single-instance cancellation of p that finds its series.
CancelCommits(p) ==
  /\ pc[p] = "x_save"
  /\ pc'[p] = "idle"
  /\ req[p].id \in DOMAIN store

\* C21: concurrent edits, cancellations and whole-series updates on one
\* series are applied as atomic read-modify-writes of its record, so the
\* record is that of a serial order of the committed operations.  An
\* operation that has changed the exceptions or a session of the series
\* under its old session ids comes before a later write in every serial
\* order, hence: the sessions a whole-series update writes are the generated
\* ones reconciled with the exceptions the record holds when it writes, and
\* the Exception a cancellation writes records the start the cancelled
\* session has in the record when it writes.
C21_AtomicReadModifyWrite ==
  [][\A p \in Procs :
       /\ UpdateCommits(p) =>
            TimesOf(store'[req[p].id].preGeneratedClassSessions) =
              TimesOf(Reconcile(WithOrigin(loc[p].gen),
                                store[req[p].id].exceptions))
       /\ CancelCommits(p) =>
            \E i \in 1..Len(store[req[p].id].preGeneratedClassSessions) :
               LET session == store[req[p].id].preGeneratedClassSessions[i]
                   written == store'[req[p].id].exceptions
               IN /\ session.id = req[p].sid
                  /\ written[Len(written)].originalStart = session.s]_vars

\* The whole-series update p is about to write resubmits the rule and the
\* resources the series has.
ResubmitsUnchanged(p) ==
  /\ req[p].body.rule = store[req[p].id].rule
  /\ req[p].body.assignedRoom = store[req[p].id].assignedRoom
  /\ req[p].body.assignedInstructor = store[req[p].id].assignedInstructor

\* C31: a whole-series update that resubmits the unchanged rule and
\* resources, after any sequence of edits and cancellations, leaves the
\* series' set of session start/end pairs as it was (stated for the updates
\* whose generation loses no session of the rule to the lead-time buffer).
C31_UnchangedUpdateKeepsSessions ==
  [][\A p \in Procs :
       ( /\ UpdateCommits(p)
         /\ ResubmitsUnchanged(p)
         /\ loc[p].gen = AllMatching(req[p].body.rule).sessions )
       => Pairs(store'[req[p].id].preGeneratedClassSessions) =
            Pairs(store[req[p].id].preGeneratedClassSessions)]_vars

\* The starts with which the cancelled occurrences of series id were
\* generated.
CancelledOccurrences(id) ==
  {store[id].exceptions[k].g :
     k \in {h \in 1..Len(store[id].exceptions) :
              store[id].exceptions[h].status = "cancelled"}}

\* C32: once an occurrence has been cancelled, no later whole-series update
\* puts it back into the series' sessions, also when the occurrence had been
\* moved by single-instance edits before it was cancelled.
C32_CancelledNeverRegenerated ==
  [][\A p \in Procs :
       UpdateCommits(p) =>
         \A i \in 1..Len(store'[req[p].id].preGeneratedClassSessions) :
            store'[req[p].id].preGeneratedClassSessions[i].g
              \notin CancelledOccurrences(req[p].id)]_vars

\* Series a and b of collection s have the same room or the same
\* instructor.
SameResourceIn(s, a, b) ==
  \/ s[a].assignedRoom # NoRes /\ s[a].assignedRoom = s[b].assignedRoom
  \/ /\ s[a].assignedInstructor # NoRes
     /\ s[a].assignedInstructor = s[b].assignedInstructor

\* A session of series a of collection s overlaps a session of series b.
OverlapIn(s, a, b) ==
  \E i \in 1..Len(s[a].preGeneratedClassSessions) :
     \E j \in 1..Len(s[b].preGeneratedClassSessions) :
        Overlaps(s[a].preGeneratedClassSessions[i],
                 s[b].preGeneratedClassSessions[j])

\* C33: a whole-series update, also one that omits the room or the
\* instructor, never commits sessions that overlap another series on the
\* room or the instructor the series has after the update.
C33_UpdateChecksResultingResources ==
  [][\A p \in Procs :
       UpdateCommits(p) =>
         \A b \in DOMAIN store' \ {req[p].id} :
            SameResourceIn(store', req[p].id, b)
              => ~ OverlapIn(store', req[p].id, b)]_vars

\* The steps a create or whole-series update handler takes, as pairs of
\* positions: generate (and reconcile) on arrival, then the conflict check,
\* then the commit.
PipelineOrder ==
  { <<"idle", "c_check">>, <<"c_check", "c_write">>, <<"c_check", "idle">>,
    <<"c_write", "idle">>,
    <<"idle", "u_check">>, <<"u_check", "u_write">>, <<"u_check", "idle">>,
    <<"u_write", "idle">> }

PipelineLabels == {"c_check", "c_write", "u_check", "u_write"}

\* The detector's answer for the candidate sessions of p on the collection as
\* it is now.
CheckOf(p) ==
  findDetailedSchedulingConflict(store, loc[p].sessions,
    req[p].body.assignedRoom, req[p].body.assignedInstructor, req[p].id)

\* Series id of collection s has been written by a create or whole-series
\* update in this step: it is new, or its sessions carry new ids.
WrittenWhole(id) ==
  \/ id \notin DOMAIN store
  \/ \E i \in 1..Len(store'[id].preGeneratedClassSessions) :
        /\ store'[id].preGeneratedClassSessions[i].id # NoId
        /\ store'[id].preGeneratedClassSessions[i].id >= nextSid

\* C34: in every create and whole-series update the sessions persisted are
\* the sessions the detector last checked and found conflict-free (on the
\* update path the reconciled ones), no commit happens without a preceding
\* check that returned null, and the stages run in the order generate,
\* reconcile, check, commit with no step repeated or skipped.
C34_PipelineOrder ==
  [][/\ \A p \in Procs :
          /\ (pc[p] \in PipelineLabels \/ pc'[p] \in PipelineLabels)
               /\ pc'[p] # pc[p]
               => <<pc[p], pc'[p]>> \in PipelineOrder
          /\ pc[p] \in {"c_check", "u_check"} /\ pc'[p] \in {"c_write", "u_write"}
               => /\ CheckOf(p).err = "none"
                  /\ ~ CheckOf(p).found
                  /\ loc'[p] = loc[p]
                  /\ req'[p] = req[p]
          /\ pc[p] \in {"c_write", "u_write"} /\ pc'[p] = pc[p]
               => loc'[p] = loc[p] /\ req'[p] = req[p]
          /\ pc[p] = "u_check"
               => loc[p].sessions =
                    Reconcile(WithOrigin(loc[p].gen), loc[p].doc.exceptions)
          /\ pc[p] = "c_check" => loc[p].sessions = WithOrigin(loc[p].gen)
          /\ UpdateCommits(p)
               => TimesOf(store'[req[p].id].preGeneratedClassSessions) =
                    TimesOf(loc[p].sessions)
          /\ pc[p] = "c_write" /\ pc'[p] = "idle" /\ store' # store
               => /\ nextSeriesId \in DOMAIN store'
                  /\ TimesOf(store'[nextSeriesId].preGeneratedClassSessions) =
                       TimesOf(loc[p].sessions)
     /\ \A id \in DOMAIN store' :
          WrittenWhole(id) =>
            \E p \in Procs :
               /\ pc'[p] = "idle"
               /\ \/ pc[p] = "c_write" /\ id = nextSeriesId
                  \/ pc[p] = "u_write" /\ id = req[p].id]_vars

\* A whole-series update has committed sessions that reconciliation had
\* changed: a stored session that has not been edited since it was written
\* starts at another time than it was generated for.
C34_Witness ==
  \E p \in Procs :
     /\ outcome[p].op = "update"
     /\ outcome[p].status = "Committed"
     /\ outcome[p].id \in DOMAIN store
     /\ \E i \in 1..Len(Sessions(outcome[p].id)) :
           /\ Len(Sessions(outcome[p].id)[i].hist) = 1
           /\ Sessions(outcome[p].id)[i].s # Sessions(outcome[p].id)[i].g

\* The save of a single-instance edit of p is answered with success.
EditCommits(p) ==
  /\ pc[p] = "e_save"
  /\ pc'[p] = "idle"
  /\ outcome'[p].status = "Committed"

\* Exceptions after differ from before in one record carrying the new
\* times: one appended, or one changed in place.
UpsertsOne(before, after, newStart, newEnd) ==
  \/ /\ Len(after) = Len(before) + 1
     /\ \A k \in 1..Len(before) : after[k] = before[k]
     /\ after[Len(after)].status = "modified"
     /\ after[Len(after)].newStart = newStart
     /\ after[Len(after)].newEnd = newEnd
  \/ /\ Len(after) = Len(before)
     /\ \E k \in 1..Len(before) :
           /\ after[k].status = before[k].status
           /\ after[k].originalStart = before[k].originalStart
           /\ after[k].newStart = newStart
           /\ after[k].newEnd = newEnd
           /\ \A h \in 1..Len(before) : h # k => after[h] = before[h]

\* C35: a successful single-instance edit sets the start/end of exactly the
\* addressed session to the requested newStart/newEnd and upserts one
\* Exception; the number of sessions of the series, its other sessions, its
\* rule, room and instructor, and every other series are unchanged.
C35_EditFrame ==
  [][\A p \in Procs :
       EditCommits(p) =>
         LET id == req[p].id
             before == store[id].preGeneratedClassSessions
             after == store'[id].preGeneratedClassSessions
         IN /\ id \in DOMAIN store /\ DOMAIN store' = DOMAIN store
            /\ \A other \in DOMAIN store \ {id} : store'[other] = store[other]
            /\ store'[id].rule = store[id].rule
            /\ store'[id].assignedRoom = store[id].assignedRoom
            /\ store'[id].assignedInstructor = store[id].assignedInstructor
            /\ Len(after) = Len(before)
            /\ \E i \in 1..Len(before) :
                  /\ before[i].id = req[p].sid
                  /\ after[i].id = req[p].sid
                  /\ after[i].s = req[p].newStart
                  /\ after[i].e = req[p].newEnd
                  /\ \A j \in 1..Len(before) : j # i => after[j] = before[j]
            /\ UpsertsOne(store[id].exceptions, store'[id].exceptions,
                          req[p].newStart, req[p].newEnd)]_vars

\* An Exception with originalStart = start exists.
HasException(exceptions, start) ==
  \E k \in 1..Len(exceptions) : exceptions[k].originalStart = start

\* C36: a successful single-instance cancellation removes exactly the
\* addressed session (the session count decreases by one, all other sessions
\* unchanged) and leaves the series with a cancelled Exception whose
\* originalStart is that session's start, updating an existing Exception for
\* that originalStart instead of appending when one exists.
C36_CancelFrame ==
  [][\A p \in Procs :
       CancelCommits(p) /\ outcome'[p].status = "Committed" =>
         LET id == req[p].id
             before == store[id].preGeneratedClassSessions
             after == store'[id].preGeneratedClassSessions
             old == store[id].exceptions
             new == store'[id].exceptions
         IN \E i \in 1..Len(before) :
               /\ before[i].id = req[p].sid
               /\ Len(after) = Len(before) - 1
               /\ \A j \in 1..Len(after) :
                     after[j] = IF j < i THEN before[j] ELSE before[j + 1]
               /\ HasCancelled(new, before[i].s)
               /\ Len(new) = IF HasException(old, before[i].s)
                             THEN Len(old) ELSE Len(old) + 1]_vars

\* Client p has sent a delete request in this step (the handler answers
\* in the same step).
Deletes(p) ==
  /\ outcome'[p].op = "delete"
  /\ outcome'[p].n = started + 1
  /\ started' = started + 1

\* The create or update of p is answered with a conflict in this step.
RejectedForConflict(p) ==
  /\ pc[p] \in {"c_check", "u_check"}
  /\ pc'[p] = "idle"
  /\ outcome'[p].err = "ConflictError"

\* Series b, present in the collection, holds a session that overlaps a
\* candidate session of p on the room or the instructor p asks for.
BlockedBy(p, b) ==
  /\ b \in DOMAIN store
  /\ b # req[p].id
  /\ \/ store[b].assignedRoom = req[p].body.assignedRoom
     \/ store[b].assignedInstructor = req[p].body.assignedInstructor
  /\ \E i \in 1..Len(loc[p].sessions) :
        \E j \in 1..Len(store[b].preGeneratedClassSessions) :
           Overlaps(loc[p].sessions[i], store[b].preGeneratedClassSessions[j])

\* C37: after a series is deleted none of its sessions or exceptions remain
\* in the store, it does not come back, and a later create or update is
\* rejected for a conflict only because of a series that is in the store.
C37_DeletedSeriesGone ==
  [][/\ \A p \in Procs :
          /\ Deletes(p) =>
                /\ outcome'[p].id \notin DOMAIN store'
                /\ \A k \in DOMAIN store \ {outcome'[p].id} :
                      k \in DOMAIN store' /\ store'[k] = store[k]
          /\ RejectedForConflict(p) => \E b \in DOMAIN store : BlockedBy(p, b)
     /\ \A id \in 1..(nextSeriesId - 1) :
          id \notin DOMAIN store => id \notin DOMAIN store']_vars

\* Series 1 was created by the first request and deleted by the second, and
\* the third request, a create for the room and the window series 1 held
\* (every series created at this clock time is in room R1 on day 1 09:00),
\* has committed as series 2.
C37_Witness ==
  /\ 1 \notin DOMAIN store
  /\ 2 \in DOMAIN store
  /\ clock = 1
  /\ store[2].assignedRoom = "R1"
  /\ \E i \in 1..Len(Sessions(2)) : Sessions(2)[i].s = 1980
  /\ \E q \in Procs :
        /\ outcome[q].op = "create" /\ outcome[q].n = 3
        /\ outcome[q].status = "Committed" /\ outcome[q].id = 2

\* The whole-series update whose write p makes in this step omits the room
\* or the instructor.
OmitsResource(p) ==
  /\ pc[p] = "u_write"
  /\ \/ req[p].body.assignedRoom = NoRes
     \/ req[p].body.assignedInstructor = NoRes

\* No session of a series of collection s overlaps a session of another
\* series of s that has the same room or the same instructor.
Disjoint(s) ==
  \A a \in DOMAIN s : \A b \in DOMAIN s \ {a} :
     SameResourceIn(s, a, b) => ~ OverlapIn(s, a, b)

====
